---------------------------- MODULE Spec2Model ----------------------------
(***************************************************************************)
(* A model of the UCLA cricket dashboard's player-identity resolver        *)
(* (src/src/lib/parsers/player-resolver.ts), of the routes that write the  *)
(* player directory, and of the routes that write performance rows and     *)
(* recompute the season aggregates.                                        *)
(*                                                                         *)
(* Strings are sequences of one-character strings, so that normalisation,  *)
(* lower-casing, splitting and prefix tests are computed as the code        *)
(* computes them.  A step of a request is what runs between two awaits:    *)
(* the store executes the awaited query and the continuation runs to the   *)
(* next await.                                                             *)
(***************************************************************************)
EXTENDS Integers, Sequences, FiniteSets, TLC

\* ------------------------------------------------------------------ bounds
\* Rows the players table may hold.
MaxPlayers == 3
\* Rows the player_aliases table may hold.
MaxAliases == 2
\* Rows the match_player_overrides table may hold.
MaxOverrides == 1

\* ----------------------------------------------------------------- strings
Str_Ed     == <<"E", "d">>
Str_EdStar == <<"E", "d", "*">>
Str_Al     == <<"A", "l">>
Str_Bo     == <<"B", "o">>

\* The characters /[*†‡]/ removes (dagger and double dagger by name).
Glyphs == {"*", "dagger", "ddagger"}

\* The characters \s matches.
IsSpace(c) == c \in {" ", "\t"}

\* The characters \w matches, among the characters the model uses.
IsWord(c) == ~IsSpace(c) /\ c \notin Glyphs /\ c \notin {".", "#", "-", "'"}

\* The letters, upper case and lower case in step.
UpperLetters == <<"A", "B", "C", "D", "E", "F", "G", "H", "I", "J", "K", "L", "M",
                  "N", "O", "P", "Q", "R", "S", "T", "U", "V", "W", "X", "Y", "Z">>

LowerLetters == <<"a", "b", "c", "d", "e", "f", "g", "h", "i", "j", "k", "l", "m",
                  "n", "o", "p", "q", "r", "s", "t", "u", "v", "w", "x", "y", "z">>

\* String.prototype.toLowerCase on one character.
LowerChar(c) ==
  IF \E i \in 1..Len(UpperLetters) : UpperLetters[i] = c
  THEN LowerLetters[CHOOSE i \in 1..Len(UpperLetters) : UpperLetters[i] = c]
  ELSE c

ToLowerCase(s) == [i \in 1..Len(s) |-> LowerChar(s[i])]

StartsWith(s, p) == Len(p) <= Len(s) /\ SubSeq(s, 1, Len(p)) = p

RECURSIVE DropSpaces(_)
DropSpaces(s) ==
  IF s # <<>> /\ IsSpace(Head(s)) THEN DropSpaces(Tail(s)) ELSE s

\* .replace(/\s+/g, ' ')
RECURSIVE CollapseSpaces(_)
CollapseSpaces(s) ==
  IF s = <<>> THEN <<>>
  ELSE IF IsSpace(Head(s)) THEN <<" ">> \o CollapseSpaces(DropSpaces(Tail(s)))
  ELSE <<Head(s)>> \o CollapseSpaces(Tail(s))

RECURSIVE DropTrailingSpaces(_)
DropTrailingSpaces(s) ==
  IF s # <<>> /\ IsSpace(s[Len(s)])
  THEN DropTrailingSpaces(SubSeq(s, 1, Len(s) - 1)) ELSE s

\* String.prototype.trim
Trim(s) == DropTrailingSpaces(DropSpaces(s))

normalizePlayerName(rawName) ==
  Trim(CollapseSpaces(SelectSeq(rawName, LAMBDA c : c \notin Glyphs)))

\* s.split(' '): the pieces between single space characters.
RECURSIVE SplitSpace(_)
SplitSpace(s) ==
  IF \A i \in 1..Len(s) : s[i] # " " THEN <<s>>
  ELSE LET i == CHOOSE k \in 1..Len(s) :
                  s[k] = " " /\ \A j \in 1..(k - 1) : s[j] # " "
       IN <<SubSeq(s, 1, i - 1)>> \o SplitSpace(SubSeq(s, i + 1, Len(s)))

\* The length of the longest prefix of s whose characters satisfy \w (w = TRUE)
\* or \s (w = FALSE).
RECURSIVE RunLen(_, _)
RunLen(s, w) ==
  IF s # <<>> /\ (IF w THEN IsWord(Head(s)) ELSE IsSpace(Head(s)))
  THEN 1 + RunLen(Tail(s), w) ELSE 0

\* lowerName.match(/^(\w+)\s+(\w)\.?$/): matched, first, lastInit.
LastInitialMatch(s) ==
  LET n1   == RunLen(s, TRUE)
      r1   == SubSeq(s, n1 + 1, Len(s))
      n2   == RunLen(r1, FALSE)
      r2   == SubSeq(r1, n2 + 1, Len(r1))
      ok   == /\ n1 >= 1 /\ n2 >= 1 /\ Len(r2) \in {1, 2}
              /\ IsWord(r2[1])
              /\ (Len(r2) = 2 => r2[2] = ".")
  IN [matched |-> ok,
      first |-> SubSeq(s, 1, n1),
      lastInit |-> IF ok THEN <<r2[1]>> ELSE <<>>]

\* ------------------------------------------------------------ Map objects
\* A JavaScript Map: entries in insertion order; set on a present key keeps
\* the key's place.
MapHas(m, k) == \E i \in 1..Len(m) : m[i].key = k

MapGet(m, k) == m[CHOOSE i \in 1..Len(m) : m[i].key = k].val

MapSet(m, k, v) ==
  IF MapHas(m, k)
  THEN [i \in 1..Len(m) |-> IF m[i].key = k THEN [key |-> k, val |-> v] ELSE m[i]]
  ELSE Append(m, [key |-> k, val |-> v])

\* -------------------------------------------------------------- directory
\* uuid_generate_v4() for the k-th row of players: distinct hexadecimal strings
\* (a UUID may begin with the letters of a first name, as the second does).
IdChars == <<"1", "2", "3", "4", "5", "6", "7", "8", "9">>

NewPlayerId(k) == IF k = 2 THEN <<"e", "d", IdChars[k]>> ELSE <<"c", IdChars[k]>>

\* No match id given (an empty or absent matchId is falsy).
NoMatch == ""

\* A cache variable that holds null.
NullCache == [isNull |-> TRUE, ver |-> 0, map |-> <<>>]

\* Lines 22-27: the player projection, keyed by id and by lower-cased name.
RECURSIVE BuildPlayerMap(_, _)
BuildPlayerMap(rows, m) ==
  IF rows = <<>> THEN m
  ELSE LET player == Head(rows)
       IN BuildPlayerMap(Tail(rows),
            MapSet(MapSet(m, player.id, player), ToLowerCase(player.name), player))

\* Lines 39-42: the alias projection, lower-cased alias -> player id.
RECURSIVE BuildAliasMap(_, _)
BuildAliasMap(rows, m) ==
  IF rows = <<>> THEN m
  ELSE BuildAliasMap(Tail(rows),
         MapSet(m, ToLowerCase(Head(rows).alias), Head(rows).player_id))

\* Lines 81-86: .eq('match_id').eq('displayed_name').single(): the row when
\* exactly one matches, else no data.
FindOverride(rows, matchId, normalizedName) ==
  LET hits == {i \in 1..Len(rows) : /\ rows[i].match_id = matchId
                                    /\ rows[i].displayed_name = normalizedName}
  IN IF Cardinality(hits) = 1
     THEN [hit |-> TRUE, id |-> rows[CHOOSE i \in hits : TRUE].actual_player_id]
     ELSE [hit |-> FALSE, id |-> <<>>]

NoOverride == [hit |-> FALSE, id |-> <<>>]

\* ------------------------------------------------------- resolvePlayerName
Result(kind, err) == [kind |-> kind, err |-> err, playerId |-> <<>>, playerName |-> <<>>]

Found(id, name) == [kind |-> "found", err |-> "", playerId |-> id, playerName |-> name]

NotFound == Result("notfound", "")

\* A TypeError from dereferencing a null cache: the promise rejects.
Raised == Result("raised", "TypeError")

\* The first-name step comparing whole first tokens, not prefixes of keys.
FirstNameStepByToken(lowerName, m) ==
  LET firstName == SplitSpace(lowerName)[1]
      hits == {i \in 1..Len(m) : SplitSpace(m[i].key)[1] = firstName}
  IN IF hits = {} THEN NotFound
     ELSE LET i == CHOOSE k \in hits : \A j \in hits : k <= j
          IN Found(m[i].val.id, m[i].val.name)

\* Lines 111-117: the first cache entry whose key starts with the first token.
FirstNameStep(lowerName, m) ==
  LET firstName == SplitSpace(lowerName)[1]
      hits == {i \in 1..Len(m) : StartsWith(m[i].key, firstName)}
  IN IF hits = {} THEN NotFound
     ELSE LET i == CHOOSE k \in hits : \A j \in hits : k <= j
          IN Found(m[i].val.id, m[i].val.name)

\* Lines 119-133: first name + last initial.
LastInitialStep(lowerName, m) ==
  LET r == LastInitialMatch(lowerName)
      hits == {i \in 1..Len(m) :
                 LET playerParts == SplitSpace(m[i].key)
                 IN /\ playerParts[1] = r.first
                    /\ Len(playerParts) > 1
                    /\ StartsWith(playerParts[Len(playerParts)], r.lastInit)}
  IN IF ~r.matched \/ hits = {} THEN NotFound
     ELSE LET i == CHOOSE k \in hits : \A j \in hits : k <= j
          IN Found(m[i].val.id, m[i].val.name)

\* Lines 105-135, with playerCache not null.
NameSteps(lowerName, m) ==
  IF MapHas(m, lowerName)
  THEN Found(MapGet(m, lowerName).id, MapGet(m, lowerName).name)
  ELSE IF FirstNameStep(lowerName, m).kind = "found" THEN FirstNameStep(lowerName, m)
  ELSE LastInitialStep(lowerName, m)

\* Lines 96-135: the alias step and what follows it.
AliasSteps(lowerName, pC, aC) ==
  IF aC.isNull THEN Raised
  ELSE IF MapHas(aC.map, lowerName) /\ pC.isNull THEN Raised
  ELSE IF MapHas(aC.map, lowerName) /\ MapHas(pC.map, MapGet(aC.map, lowerName))
  THEN Found(MapGet(aC.map, lowerName), MapGet(pC.map, MapGet(aC.map, lowerName)).name)
  ELSE IF pC.isNull THEN Raised
  ELSE NameSteps(lowerName, pC.map)

\* Lines 76-135: what resolvePlayerName computes once the override query has
\* answered (ovr), from the caches as they are at that moment.
ResolveLookup(rawName, ovr, pC, aC) ==
  LET lowerName == ToLowerCase(normalizePlayerName(rawName))
  IN IF ovr.hit /\ pC.isNull THEN Raised
     ELSE IF ovr.hit /\ MapHas(pC.map, ovr.id)
     THEN Found(ovr.id, MapGet(pC.map, ovr.id).name)
     ELSE AliasSteps(lowerName, pC, aC)

\* ------------------------------------------------------------------ state
VARIABLES
  players,      \* table players: rows [id, name], in insertion order
  aliases,      \* table player_aliases: rows [player_id, alias]
  overrides,    \* table match_player_overrides
  playerCache,  \* the module variable playerCache (line 5)
  aliasCache,   \* the module variable aliasCache (line 6)
  task,         \* the calls in flight: where each stands and what it returned
  matches,      \* table matches
  history,      \* table import_history
  perfs,        \* tables batting_, bowling_ and fielding_performances
  stats,        \* tables player_, bowling_ and fielding_season_stats
  req,          \* the route requests in flight that write performance rows
  serial,       \* how many match and performance rows were ever inserted
  quota,        \* how many requests may still be taken (negative: no limit)
  arg,          \* the input of the function under study (rows, a document)
  ret           \* what the function returned for it

dirVars == <<players, aliases, overrides, playerCache, aliasCache, task>>

perfVars == <<matches, history, perfs, stats, req, serial, quota>>

pureVars == <<arg, ret>>

vars == <<players, aliases, overrides, playerCache, aliasCache, task,
          matches, history, perfs, stats, req, serial, quota, arg, ret>>

\* The calls that may be in flight at once.
Tasks == {"t1", "t2"}

\* The names the callers pass.
RawNames == {Str_Ed, Str_EdStar, Str_Al}

\* The match whose overrides the callers write and read.
OverrideMatch == "m1"

\* The id of the match row an import has just inserted (route.ts line 80).
ImportMatch == "m2"

\* The scorecards the import route is given: the display names of the entries.
ImportEntries == {<<Str_Ed>>, <<Str_EdStar, Str_Al>>}

NoOut == Result("none", "")

IdleTask ==
  [op |-> "idle", pc |-> "idle", name |-> <<>>, mid |-> NoMatch, pid |-> <<>>,
   inCreate |-> FALSE, initBy |-> "", ver |-> 0, entries |-> <<>>, out |-> NoOut]

Call(op, name, mid, pid) ==
  [IdleTask EXCEPT !.op = op, !.name = name, !.mid = mid, !.pid = pid]

\* The call has returned (or thrown): out is what its caller gets.
Done(tk, out) ==
  [tk EXCEPT !.pc = "done", !.out = out, !.inCreate = FALSE, !.initBy = "",
             !.ver = 0, !.entries = <<>>]

\* An exception leaves createPlayerIfNotExists; the import route catches it
\* (route.ts lines 287-293) and answers 500.
Throw(tk, err) ==
  IF tk.op = "import" THEN Done(tk, Result("error", err))
  ELSE Done(tk, Result("raised", err))

\* The name and match id resolvePlayerName is called with: createPlayerIfNotExists
\* passes the normalized name and no match id (line 145).
ResolveArg(tk) == IF tk.inCreate THEN normalizePlayerName(tk.name) ELSE tk.name

ResolveMid(tk) == IF tk.inCreate THEN NoMatch ELSE tk.mid

RECURSIVE ResolveSync(_, _, _), ResolveAfterInit(_, _, _), ResolveReturn(_, _, _, _)
RECURSIVE CreateReturn(_, _, _, _), ImportAfterEntry(_, _, _)

\* resolvePlayerName lines 71-74: the cache check.
ResolveSync(tk, pC, aC) ==
  IF pC.isNull \/ aC.isNull
  THEN [tk EXCEPT !.pc = "i_players", !.initBy = "resolve"]
  ELSE ResolveAfterInit(tk, pC, aC)

\* resolvePlayerName lines 76-94: await the override query when a match id is
\* given, else look the name up at once.
ResolveAfterInit(tk, pC, aC) ==
  IF ResolveMid(tk) # NoMatch
  THEN [tk EXCEPT !.pc = "r_override", !.initBy = "", !.ver = 0]
  ELSE ResolveReturn([tk EXCEPT !.initBy = "", !.ver = 0],
                     ResolveLookup(ResolveArg(tk), NoOverride, pC, aC), pC, aC)

\* What the caller of resolvePlayerName does with its result: the caller itself
\* (op "resolve"), createPlayerIfNotExists lines 145-148, or the import loop
\* (route.ts lines 132-139).
ResolveReturn(tk, res, pC, aC) ==
  IF tk.op = "resolve" THEN Done(tk, res)
  ELSE IF res.kind = "raised" THEN Throw(tk, "TypeError")
  ELSE IF tk.inCreate
  THEN IF res.kind = "found" THEN CreateReturn(tk, res.playerId, pC, aC)
       ELSE [tk EXCEPT !.pc = "c_insert"]
  ELSE IF res.kind = "found" THEN ImportAfterEntry(tk, pC, aC)
       ELSE ResolveSync([tk EXCEPT !.inCreate = TRUE], pC, aC)

\* createPlayerIfNotExists returns id (lines 147, 170).
CreateReturn(tk, id, pC, aC) ==
  IF tk.op = "create"
  THEN Done(tk, [Result("created", "") EXCEPT !.playerId = id])
  ELSE ImportAfterEntry(tk, pC, aC)

\* route.ts lines 141-162: the performance row of the entry is inserted (it
\* touches no directory state) and the loop takes the next entry.
ImportAfterEntry(tk, pC, aC) ==
  IF Len(tk.entries) <= 1 THEN Done(tk, Result("ok", ""))
  ELSE ResolveSync([tk EXCEPT !.entries = Tail(@), !.name = tk.entries[2],
                              !.inCreate = FALSE, !.pid = <<>>], pC, aC)

\* initializePlayerCache has returned (lines 19, 36, 43): to the import route
\* (route.ts line 120) or to resolvePlayerName (line 73).
AfterInit(tk, pC, aC) ==
  IF tk.initBy = "import"
  THEN ResolveSync([tk EXCEPT !.initBy = "", !.ver = 0], pC, aC)
  ELSE ResolveAfterInit(tk, pC, aC)

\* ------------------------------------------------- actions: the directory
\* A build number no cache and no build in flight carries.
FreshVer ==
  LET used == {playerCache.ver, aliasCache.ver} \cup {task[u].ver : u \in Tasks}
  IN CHOOSE v \in 1..(Cardinality(Tasks) + 3) :
       v \notin used /\ \A w \in 1..(v - 1) : w \in used

PlayerIds == {players[i].id : i \in 1..Len(players)}

\* INSERT INTO player_aliases under UNIQUE(alias) (schema.sql lines 28-34): a
\* duplicate key is an error and leaves the table as it was.
AliasExists(rows, alias) == \E i \in 1..Len(rows) : rows[i].alias = alias

\* An upsert in the place of the insert: a present alias is bound anew.
InsertAlias_Upsert(rows, playerId, alias) ==
  IF AliasExists(rows, alias)
  THEN [i \in 1..Len(rows) |->
          IF rows[i].alias = alias THEN [player_id |-> playerId, alias |-> alias]
          ELSE rows[i]]
  ELSE Append(rows, [player_id |-> playerId, alias |-> alias])

InsertAlias(rows, playerId, alias) ==
  IF AliasExists(rows, alias) THEN rows
  ELSE Append(rows, [player_id |-> playerId, alias |-> alias])

\* INSERT INTO match_player_overrides under UNIQUE(match_id, displayed_name)
\* (schema.sql lines 128-136).
OverrideExists(rows, matchId, name) ==
  \E i \in 1..Len(rows) : rows[i].match_id = matchId /\ rows[i].displayed_name = name

\* resolvePlayerName(n, m) is called.
StartResolve(t, n, m) ==
  /\ task[t].pc = "idle"
  /\ task' = [task EXCEPT ![t] = ResolveSync(Call("resolve", n, m, <<>>),
                                             playerCache, aliasCache)]
  /\ UNCHANGED <<players, aliases, overrides, playerCache, aliasCache>>
  /\ UNCHANGED <<perfVars, pureVars>>

\* createPlayerIfNotExists(n) is called (lines 141-145).
StartCreate(t, n) ==
  /\ task[t].pc = "idle"
  /\ task' = [task EXCEPT ![t] =
                ResolveSync([Call("create", n, NoMatch, <<>>) EXCEPT !.inCreate = TRUE],
                            playerCache, aliasCache)]
  /\ UNCHANGED <<players, aliases, overrides, playerCache, aliasCache>>
  /\ UNCHANGED <<perfVars, pureVars>>

\* The import route has inserted its match and import-history rows and calls
\* initializePlayerCache (route.ts lines 119-120).
StartImport(t, es) ==
  /\ task[t].pc = "idle"
  /\ task' = [task EXCEPT ![t] =
                [Call("import", es[1], ImportMatch, <<>>)
                   EXCEPT !.pc = "i_players", !.initBy = "import", !.entries = es]]
  /\ UNCHANGED <<players, aliases, overrides, playerCache, aliasCache>>
  /\ UNCHANGED <<perfVars, pureVars>>

\* initializePlayerCache lines 13-27: the players are loaded and the player
\* projection is replaced.
InitPlayers(t) ==
  /\ task[t].pc = "i_players"
  /\ playerCache' = [isNull |-> FALSE, ver |-> FreshVer,
                     map |-> BuildPlayerMap(players, <<>>)]
  /\ task' = [task EXCEPT ![t].pc = "i_aliases", ![t].ver = FreshVer]
  /\ UNCHANGED <<players, aliases, overrides, aliasCache>>
  /\ UNCHANGED <<perfVars, pureVars>>

\* initializePlayerCache lines 17-20: the load of players fails.
InitPlayersFail(t) ==
  /\ task[t].pc = "i_players"
  /\ task' = [task EXCEPT ![t] = AfterInit(task[t], playerCache, aliasCache)]
  /\ UNCHANGED <<players, aliases, overrides, playerCache, aliasCache>>
  /\ UNCHANGED <<perfVars, pureVars>>

\* initializePlayerCache lines 29-43: the aliases are loaded and the alias
\* projection is replaced.
InitAliases(t) ==
  /\ task[t].pc = "i_aliases"
  /\ aliasCache' = [isNull |-> FALSE, ver |-> task[t].ver,
                    map |-> BuildAliasMap(aliases, <<>>)]
  /\ task' = [task EXCEPT ![t] = AfterInit(task[t], playerCache, aliasCache')]
  /\ UNCHANGED <<players, aliases, overrides, playerCache>>
  /\ UNCHANGED <<perfVars, pureVars>>

\* initializePlayerCache lines 34-37: the load of aliases fails.
InitAliasesFail(t) ==
  /\ task[t].pc = "i_aliases"
  /\ task' = [task EXCEPT ![t] = AfterInit(task[t], playerCache, aliasCache)]
  /\ UNCHANGED <<players, aliases, overrides, playerCache, aliasCache>>
  /\ UNCHANGED <<perfVars, pureVars>>

\* resolvePlayerName lines 81-135: the override query answers and the name is
\* looked up in the caches as they are now.
OverrideAnswer(t) ==
  /\ task[t].pc = "r_override"
  /\ task' = [task EXCEPT ![t] =
       ResolveReturn(task[t],
         ResolveLookup(task[t].name,
           FindOverride(overrides, task[t].mid, normalizePlayerName(task[t].name)),
           playerCache, aliasCache),
         playerCache, aliasCache)]
  /\ UNCHANGED <<players, aliases, overrides, playerCache, aliasCache>>
  /\ UNCHANGED <<perfVars, pureVars>>

\* createPlayerIfNotExists lines 150-170: the player row is inserted; without
\* an alias to add the cache is cleared and the id returned.
CreateInsert(t) ==
  LET tk == task[t]
      id == NewPlayerId(Len(players) + 1)
  IN /\ tk.pc = "c_insert"
     /\ Len(players) < MaxPlayers
     /\ players' = Append(players, [id |-> id, name |-> normalizePlayerName(tk.name)])
     /\ IF tk.name # normalizePlayerName(tk.name)
        THEN /\ task' = [task EXCEPT ![t].pc = "c_alias", ![t].pid = id]
             /\ UNCHANGED <<playerCache, aliasCache>>
        ELSE /\ playerCache' = NullCache
             /\ aliasCache' = NullCache
             /\ task' = [task EXCEPT ![t] = CreateReturn(tk, id, NullCache, NullCache)]
     /\ UNCHANGED <<aliases, overrides>>
     /\ UNCHANGED <<perfVars, pureVars>>

\* createPlayerIfNotExists lines 157-160: the insert fails and the error is
\* thrown.
CreateInsertFail(t) ==
  /\ task[t].pc = "c_insert"
  /\ task' = [task EXCEPT ![t] = Throw(task[t], "db")]
  /\ UNCHANGED <<players, aliases, overrides, playerCache, aliasCache>>
  /\ UNCHANGED <<perfVars, pureVars>>

\* createPlayerIfNotExists lines 163-170: addPlayerAlias(data.id, name) inserts
\* the normalized name as an alias and clears the cache; the cache is cleared
\* again and the id returned.
CreateAlias(t) ==
  LET tk == task[t]
      alias == normalizePlayerName(tk.name)
  IN /\ tk.pc = "c_alias"
     /\ AliasExists(aliases, alias) \/ Len(aliases) < MaxAliases
     /\ aliases' = InsertAlias(aliases, tk.pid, alias)
     /\ playerCache' = NullCache
     /\ aliasCache' = NullCache
     /\ task' = [task EXCEPT ![t] = CreateReturn(tk, tk.pid, NullCache, NullCache)]
     /\ UNCHANGED <<players, overrides>>
     /\ UNCHANGED <<perfVars, pureVars>>

\* addPlayerAlias(p, a), lines 176-190: the insert, whose error is never
\* thrown, and the clearing of the cache.
AddPlayerAlias(t, p, a) ==
  LET alias == normalizePlayerName(a)
  IN /\ task[t].pc = "idle"
     /\ p \in PlayerIds
     /\ AliasExists(aliases, alias) \/ Len(aliases) < MaxAliases
     /\ aliases' = InsertAlias(aliases, p, alias)
     /\ playerCache' = NullCache
     /\ aliasCache' = NullCache
     /\ task' = [task EXCEPT ![t] = Done(Call("addAlias", a, NoMatch, p), Result("ok", ""))]
     /\ UNCHANGED <<players, overrides>>
     /\ UNCHANGED <<perfVars, pureVars>>

\* addMatchPlayerOverride(m, n, p), lines 195-214: the insert; any error is
\* thrown.
AddMatchPlayerOverride(t, m, n, p) ==
  LET name == normalizePlayerName(n)
      dup  == OverrideExists(overrides, m, name)
  IN /\ task[t].pc = "idle"
     /\ p \in PlayerIds
     /\ dup \/ Len(overrides) < MaxOverrides
     /\ overrides' = IF dup THEN overrides
                     ELSE Append(overrides, [match_id |-> m, displayed_name |-> name,
                                             actual_player_id |-> p])
     /\ task' = [task EXCEPT ![t] =
                   Done(Call("addOverride", n, m, p),
                        IF dup THEN Result("raised", "duplicate") ELSE Result("ok", ""))]
     /\ UNCHANGED <<players, aliases, playerCache, aliasCache>>
     /\ UNCHANGED <<perfVars, pureVars>>

\* POST /api/players: .eq('name', name.trim()).single() finds the row when
\* exactly one has the name.
PlayerNamed(rows, name) == Cardinality({i \in 1..Len(rows) : rows[i].name = name}) = 1

\* POST /api/players, lines 52-74: the request is read and the query for an
\* existing player of that name answers.
RoutePlayerCheck(t, n) ==
  /\ task[t].pc = "idle"
  /\ Trim(n) # <<>>
  /\ task' = [task EXCEPT ![t] =
                IF PlayerNamed(players, Trim(n))
                THEN Done(Call("routePlayer", n, NoMatch, <<>>), Result("rejected", ""))
                ELSE [Call("routePlayer", n, NoMatch, <<>>) EXCEPT !.pc = "rp_insert"]]
  /\ UNCHANGED <<players, aliases, overrides, playerCache, aliasCache>>
  /\ UNCHANGED <<perfVars, pureVars>>

\* POST /api/players, lines 76-93: the player row is inserted.
RoutePlayerInsert(t) ==
  /\ task[t].pc = "rp_insert"
  /\ Len(players) < MaxPlayers
  /\ players' = Append(players, [id |-> NewPlayerId(Len(players) + 1),
                                 name |-> Trim(task[t].name)])
  /\ task' = [task EXCEPT ![t] =
                Done([task[t] EXCEPT !.pid = NewPlayerId(Len(players) + 1)],
                     Result("ok", ""))]
  /\ UNCHANGED <<aliases, overrides, playerCache, aliasCache>>
  /\ UNCHANGED <<perfVars, pureVars>>

\* POST /api/players/aliases, lines 42-64: the query for an existing alias
\* answers.
RouteAliasCheck(t, p, a) ==
  /\ task[t].pc = "idle"
  /\ p \in PlayerIds
  /\ Trim(a) # <<>>
  /\ task' = [task EXCEPT ![t] =
                IF AliasExists(aliases, Trim(a))
                THEN Done(Call("routeAlias", a, NoMatch, p), Result("rejected", ""))
                ELSE [Call("routeAlias", a, NoMatch, p) EXCEPT !.pc = "ra_insert"]]
  /\ UNCHANGED <<players, aliases, overrides, playerCache, aliasCache>>
  /\ UNCHANGED <<perfVars, pureVars>>

\* POST /api/players/aliases, lines 66-81: the alias row is inserted; a
\* duplicate key is answered with 500.
RouteAliasInsert(t) ==
  LET alias == Trim(task[t].name)
  IN /\ task[t].pc = "ra_insert"
     /\ AliasExists(aliases, alias) \/ Len(aliases) < MaxAliases
     /\ aliases' = InsertAlias(aliases, task[t].pid, alias)
     /\ task' = [task EXCEPT ![t] =
                   Done(task[t], IF AliasExists(aliases, alias)
                                 THEN Result("error", "duplicate")
                                 ELSE Result("ok", ""))]
     /\ UNCHANGED <<players, overrides, playerCache, aliasCache>>
     /\ UNCHANGED <<perfVars, pureVars>>

\* The caller has taken the result.
Finish(t) ==
  /\ task[t].pc = "done"
  /\ task' = [task EXCEPT ![t] = IdleTask]
  /\ UNCHANGED <<players, aliases, overrides, playerCache, aliasCache>>
  /\ UNCHANGED <<perfVars, pureVars>>

\* ------------------------------------------------------------ specification
\* No function is under study.
PureIdle == arg = <<>> /\ ret = <<>>

DirInit ==
  /\ players = <<>>
  /\ aliases = <<>>
  /\ overrides = <<>>
  /\ playerCache = NullCache
  /\ aliasCache = NullCache
  /\ task = [t \in Tasks |-> IdleTask]

\* ------------------------------------------------------------------------
\* The performance rows and the season aggregates
\* (src/app/api/matches/import/route.ts, src/app/api/matches/[id]/route.ts,
\* the update-performance and reassign-performance routes, stats-service).
\* A performance row carries one number, amount: the runs of a batting row,
\* the catches of a fielding row.  The bowling tables are written by the
\* same statements as the batting tables and are not told apart here.

\* How many matches are ever inserted.
MaxMatches == 2

\* How many requests are taken when two run at a time.
MaxRequests == 2

\* The id the store gives the k-th inserted match (the ids are never reused).
MatchIdPool == <<"m1", "m2", "m3", "m4">>

MatchIds == {MatchIdPool[i] : i \in 1..MaxMatches}

Kinds == {"batting", "fielding"}

\* Two scorecards after parsing: the entries of our innings in the order the
\* import walks them (batting, then fielding credits).
CardA ==
  [content_hash |-> "hA", season_id |-> "s1",
   entries |-> << [kind |-> "batting", amount |-> 1],
                  [kind |-> "batting", amount |-> 1] >>]

CardB ==
  [content_hash |-> "hB", season_id |-> "s1",
   entries |-> << [kind |-> "fielding", amount |-> 1],
                  [kind |-> "fielding", amount |-> 1] >>]

Scorecards == {CardA, CardB}

\* The value a stat edit writes into the row.
EditAmounts == {2}

NoAgg == [matchesPlayed |-> 0, total |-> 0]

IdleReq ==
  [op |-> "none", pc |-> "idle", kind |-> "", perfId |-> 0, matchId |-> "",
   newPlayer |-> <<>>, oldPlayer |-> <<>>, season |-> "", hash |-> "",
   amount |-> 0, todo |-> <<>>, ids |-> <<>>, found |-> 0, agg |-> NoAgg,
   used |-> {}, newName |-> <<>>, status |-> 0, success |-> FALSE]

\* The response is sent: the request's locals are gone.
Respond(r, status, success) ==
  [IdleReq EXCEPT !.op = r.op, !.pc = "done", !.status = status,
                  !.success = success]

\* No request runs in the slot: none came yet, or its response was sent.
Free(t) == req[t].pc \in {"idle", "done"}

\* The slot takes a request, out of the quota where there is one.
Admit(t) ==
  /\ Free(t)
  /\ IF quota < 0 THEN quota' = quota
     ELSE quota > 0 /\ quota' = quota - 1

MatchExists(id) == \E m \in matches : m.id = id

MatchRow(id) == CHOOSE m \in matches : m.id = id

PerfExists(k, id) == \E r \in perfs : r.kind = k /\ r.id = id

PerfRow(k, id) == CHOOSE r \in perfs : r.kind = k /\ r.id = id

\* UNIQUE(match_id, player_id) of the three performance tables: a row of
\* that kind for the match and the player, other than the row `id`.
Occupied(rows, k, m, p, id) ==
  \E r \in rows : r.kind = k /\ r.match_id = m /\ r.player_id = p /\ r.id # id

\* insert into <kind>_performances: refused by the foreign key when the
\* match is gone and by the unique constraint when the pair is taken.
InsertPerf(rows, k, m, p, a, id) ==
  IF MatchExists(m) /\ ~Occupied(rows, k, m, p, 0)
  THEN rows \cup {[id |-> id, kind |-> k, match_id |-> m, player_id |-> p,
                   amount |-> a]}
  ELSE rows

\* The update without the unique constraint.
ReassignUnchecked(rows, k, id, p) == FALSE

\* update <kind>_performances set player_id where id: refused by the unique
\* constraint when the new player has another row in the row's match.
ReassignViolatesUnique(rows, k, id, p) ==
  \E r \in rows : r.kind = k /\ r.id = id /\ Occupied(rows, k, r.match_id, p, id)

RECURSIVE SumAmount(_)
SumAmount(rows) ==
  IF rows = {} THEN 0
  ELSE LET r == CHOOSE x \in rows : TRUE
       IN r.amount + SumAmount(rows \ {r})

\* calculateBattingStats, calculateBowlingStats, calculateFieldingStats:
\* the number of distinct matches and the sum of the rows' numbers.
CalculateStats(rows) ==
  [matchesPlayed |-> Cardinality({r.match_id : r \in rows}),
   total |-> SumAmount(rows)]

\* select * , matches!inner(season_id) where player_id and season_id.
SeasonRows(rows, k, p, s) ==
  {r \in rows : /\ r.kind = k
                /\ r.player_id = p
                /\ \E m \in matches : m.id = r.match_id /\ m.season_id = s}

StatsExists(k, p, s) ==
  \E x \in stats : x.kind = k /\ x.player_id = p /\ x.season_id = s

\* upsert ... onConflict player_id, season_id.
UpsertStats(rows, k, p, s, agg) ==
  {x \in rows : ~(x.kind = k /\ x.player_id = p /\ x.season_id = s)}
    \cup {[kind |-> k, player_id |-> p, season_id |-> s,
           matchesPlayed |-> agg.matchesPlayed, total |-> agg.total]}

RECURSIVE Dedup(_)
\* Array.from(new Set(ids)): the first occurrence of each, in order.
Dedup(ids) ==
  IF ids = <<>> THEN <<>>
  ELSE LET init == Dedup(SubSeq(ids, 1, Len(ids) - 1))
           last == ids[Len(ids)]
       IN IF \E i \in 1..Len(init) : init[i] = last THEN init
          ELSE Append(init, last)

\* The loops that call update...SeasonStats for each listed player.
StartRecompute(r, ids, s) ==
  IF ids = <<>> THEN Respond(r, 200, TRUE)
  ELSE [r EXCEPT !.pc = "rc_read", !.ids = ids, !.season = s,
                 !.todo = <<>>, !.found = 0]

PerfIdle ==
  /\ matches = {}
  /\ history = {}
  /\ perfs = {}
  /\ stats = {}
  /\ req = [t \in Tasks |-> IdleReq]
  /\ serial = [match |-> 0, perf |-> 0]

\* update...SeasonStats, first await: the player's rows of the season are
\* selected and reduced.
RecomputeRead(t) ==
  /\ req[t].pc = "rc_read"
  /\ LET r == req[t]
         k == Head(r.ids)[1]
         p == Head(r.ids)[2]
     IN req' = [req EXCEPT ![t] =
                  [r EXCEPT !.pc = "rc_write",
                            !.agg = CalculateStats(SeasonRows(perfs, k, p, r.season))]]
  /\ UNCHANGED <<dirVars, pureVars, matches, history, perfs, stats, serial, quota>>

\* update...SeasonStats, second await: the aggregate row is upserted; the
\* loop goes to the next player or the route responds.
RecomputeWrite(t) ==
  /\ req[t].pc = "rc_write"
  /\ LET r == req[t]
         k == Head(r.ids)[1]
         p == Head(r.ids)[2]
     IN /\ stats' = UpsertStats(stats, k, p, r.season, r.agg)
        /\ req' = [req EXCEPT ![t] =
                     IF Tail(r.ids) = <<>> THEN Respond(r, 200, TRUE)
                     ELSE [r EXCEPT !.pc = "rc_read", !.ids = Tail(r.ids),
                                    !.agg = NoAgg]]
  /\ UNCHANGED <<dirVars, pureVars, matches, history, perfs, serial, quota>>

\* POST /api/matches/import up to the duplicate check on the content hash.
ImportStart(t, card) ==
  /\ Admit(t)
  /\ serial.match + Cardinality({u \in Tasks : req[u].pc = "im_match"}) < MaxMatches
  /\ LET r == [IdleReq EXCEPT !.op = "import", !.hash = card.content_hash]
     IN req' = [req EXCEPT ![t] =
                  IF \E h \in history : h.content_hash = card.content_hash
                  THEN Respond(r, 200, FALSE)
                  ELSE [r EXCEPT !.pc = "im_match", !.season = card.season_id,
                                 !.todo = card.entries]]
  /\ UNCHANGED <<dirVars, pureVars, matches, history, perfs, stats, serial>>

\* The match row is inserted.
ImportMatchInsert(t) ==
  /\ req[t].pc = "im_match"
  /\ LET id == MatchIdPool[serial.match + 1]
     IN /\ matches' = matches \cup {[id |-> id, season_id |-> req[t].season,
                                      raw_html_hash |-> req[t].hash]}
        /\ req' = [req EXCEPT ![t].pc = "im_history", ![t].matchId = id]
  /\ serial' = [serial EXCEPT !.match = @ + 1]
  /\ UNCHANGED <<dirVars, pureVars, history, perfs, stats, quota>>

\* The import_history row is inserted (its error is not looked at), then
\* the name cache is rebuilt and the entry loops begin.
ImportHistoryInsert(t) ==
  /\ req[t].pc = "im_history"
  /\ LET r == req[t]
     IN /\ history' =
             IF MatchExists(r.matchId)
                /\ ~\E h \in history : h.content_hash = r.hash
             THEN history \cup {[match_id |-> r.matchId, content_hash |-> r.hash]}
             ELSE history
        /\ req' = [req EXCEPT ![t].pc = "im_entry"]
  /\ UNCHANGED <<dirVars, pureVars, matches, perfs, stats, serial, quota>>

\* After an entry: the next entry, or the recompute loops over the unique
\* player ids of each kind.
ImportNext(r, p) ==
  LET ids == Append(r.ids, <<Head(r.todo).kind, p>>)
      rest == Tail(r.todo)
  IN IF rest = <<>> THEN StartRecompute(r, Dedup(ids), r.season)
     ELSE [r EXCEPT !.pc = "im_entry", !.todo = rest, !.ids = ids,
                    !.found = 0, !.newPlayer = <<>>]

\* One batting entry: its name resolves to (or is created as)
\* player p and the row is inserted; an insert error is only logged.
ImportEntry(t, p) ==
  /\ req[t].pc = "im_entry"
  /\ Head(req[t].todo).kind = "batting"
  /\ LET r == req[t]
         e == Head(r.todo)
         new == InsertPerf(perfs, e.kind, r.matchId, p, e.amount, serial.perf + 1)
     IN /\ perfs' = new
        /\ serial' = IF new = perfs THEN serial
                     ELSE [serial EXCEPT !.perf = @ + 1]
        /\ req' = [req EXCEPT ![t] = ImportNext(r, p)]
  /\ UNCHANGED <<dirVars, pureVars, matches, history, stats, quota>>

\* One fielding entry, first await: the player's fielding row of the match
\* is looked up.
ImportFieldingSelect(t, p) ==
  /\ req[t].pc = "im_entry"
  /\ Head(req[t].todo).kind = "fielding"
  /\ LET r == req[t]
         hit == {x \in perfs : x.kind = "fielding" /\ x.match_id = r.matchId
                               /\ x.player_id = p}
     IN req' = [req EXCEPT ![t] =
                  [r EXCEPT !.pc = "im_fwrite", !.newPlayer = p,
                            !.found = IF hit = {} THEN 0
                                      ELSE (CHOOSE x \in hit : TRUE).id]]
  /\ UNCHANGED <<dirVars, pureVars, matches, history, perfs, stats, serial, quota>>

\* The update that stores the entry's credits in place of the row's.
SetCredits(rows, id, a) ==
  {IF x.kind = "fielding" /\ x.id = id
   THEN [x EXCEPT !.amount = a] ELSE x : x \in rows}

\* update fielding_performances where id: the entry's credits are added to
\* the credits that were read from the row.
AddCredits(rows, id, a) ==
  {IF x.kind = "fielding" /\ x.id = id
   THEN [x EXCEPT !.amount = @ + a] ELSE x : x \in rows}

\* One fielding entry, second await: the credits are added to the row that
\* was found, or a new row is inserted.
ImportFieldingWrite(t) ==
  /\ req[t].pc = "im_fwrite"
  /\ LET r == req[t]
         e == Head(r.todo)
         new == IF r.found # 0
                THEN AddCredits(perfs, r.found, e.amount)
                ELSE InsertPerf(perfs, "fielding", r.matchId, r.newPlayer,
                                e.amount, serial.perf + 1)
     IN /\ perfs' = new
        /\ serial' = IF r.found # 0 \/ new = perfs THEN serial
                     ELSE [serial EXCEPT !.perf = @ + 1]
        /\ req' = [req EXCEPT ![t] = ImportNext(r, r.newPlayer)]
  /\ UNCHANGED <<dirVars, pureVars, matches, history, stats, quota>>

\* createPlayerIfNotExists throws on an entry whose player cannot be
\* inserted: the catch block answers 500.
ImportThrow(t) ==
  /\ req[t].pc = "im_entry"
  /\ req' = [req EXCEPT ![t] = Respond(req[t], 500, FALSE)]
  /\ UNCHANGED <<dirVars, pureVars, matches, history, perfs, stats, serial, quota>>

\* The season of the request's match is looked up (by the match id of the
\* request body); without a match nothing is recomputed.
MatchLookup(t) ==
  /\ req[t].pc = "match"
  /\ LET r == req[t]
     IN req' = [req EXCEPT ![t] =
                  IF MatchExists(r.matchId)
                  THEN StartRecompute(r, r.ids, MatchRow(r.matchId).season_id)
                  ELSE Respond(r, 200, TRUE)]
  /\ UNCHANGED <<dirVars, pureVars, matches, history, perfs, stats, serial, quota>>

\* POST update-performance up to the fetch of the row (404 without it).
EditStart(t, k, id, a, m) ==
  /\ Admit(t)
  /\ LET r == [IdleReq EXCEPT !.op = "edit", !.kind = k, !.perfId = id,
                              !.matchId = m, !.amount = a]
     IN req' = [req EXCEPT ![t] =
                  IF ~PerfExists(k, id) THEN Respond(r, 404, FALSE)
                  ELSE [r EXCEPT !.pc = "ed_update",
                                 !.oldPlayer = PerfRow(k, id).player_id]]
  /\ UNCHANGED <<dirVars, pureVars, matches, history, perfs, stats, serial>>

\* The whitelisted field is written into the row.
EditUpdate(t) ==
  /\ req[t].pc = "ed_update"
  /\ LET r == req[t]
     IN /\ perfs' = {IF x.kind = r.kind /\ x.id = r.perfId
                     THEN [x EXCEPT !.amount = r.amount] ELSE x : x \in perfs}
        /\ req' = [req EXCEPT ![t] =
                     [r EXCEPT !.pc = "match", !.ids = << <<r.kind, r.oldPlayer>> >>]]
  /\ UNCHANGED <<dirVars, pureVars, matches, history, stats, serial, quota>>

\* POST reassign-performance up to the fetch of the row (404 without it).
ReassignStart(t, k, id, p, m) ==
  /\ Admit(t)
  /\ LET r == [IdleReq EXCEPT !.op = "reassign", !.kind = k, !.perfId = id,
                              !.matchId = m, !.newPlayer = p]
     IN req' = [req EXCEPT ![t] =
                  IF ~PerfExists(k, id) THEN Respond(r, 404, FALSE)
                  ELSE [r EXCEPT !.pc = "re_check",
                                 !.oldPlayer = PerfRow(k, id).player_id]]
  /\ UNCHANGED <<dirVars, pureVars, matches, history, perfs, stats, serial>>

\* The new player's row in the request's match is looked for (400 with it).
ReassignCheck(t) ==
  /\ req[t].pc = "re_check"
  /\ LET r == req[t]
     IN req' = [req EXCEPT ![t] =
                  IF Occupied(perfs, r.kind, r.matchId, r.newPlayer, 0)
                  THEN Respond(r, 400, FALSE)
                  ELSE [r EXCEPT !.pc = "re_update"]]
  /\ UNCHANGED <<dirVars, pureVars, matches, history, perfs, stats, serial, quota>>

\* The row's player_id is written; an update error answers 500.
ReassignUpdate(t) ==
  /\ req[t].pc = "re_update"
  /\ LET r == req[t]
     IN IF ReassignViolatesUnique(perfs, r.kind, r.perfId, r.newPlayer)
        THEN /\ perfs' = perfs
             /\ req' = [req EXCEPT ![t] = Respond(r, 500, FALSE)]
        ELSE /\ perfs' = {IF x.kind = r.kind /\ x.id = r.perfId
                          THEN [x EXCEPT !.player_id = r.newPlayer] ELSE x
                          : x \in perfs}
             /\ req' = [req EXCEPT ![t] =
                          [r EXCEPT !.pc = "match",
                                    !.ids = << <<r.kind, r.oldPlayer>>,
                                               <<r.kind, r.newPlayer>> >>]]
  /\ UNCHANGED <<dirVars, pureVars, matches, history, stats, serial, quota>>

\* DELETE /api/matches/[id] up to the fetch of the match (404 without it).
DeleteStart(t, m) ==
  /\ Admit(t)
  /\ LET r == [IdleReq EXCEPT !.op = "delete", !.matchId = m]
     IN req' = [req EXCEPT ![t] =
                  IF ~MatchExists(m) THEN Respond(r, 404, FALSE)
                  ELSE [r EXCEPT !.pc = "de_gather",
                                 !.season = MatchRow(m).season_id]]
  /\ UNCHANGED <<dirVars, pureVars, matches, history, perfs, stats, serial>>

\* The players who have a row of the kind in the match, in table order.
PlayersOf(k, m) ==
  LET has(row) == \E x \in perfs : x.kind = k /\ x.match_id = m
                                   /\ x.player_id = row.id
      sel == SelectSeq(players, has)
  IN [i \in 1..Len(sel) |-> <<k, sel[i].id>>]

\* The player ids of the match's rows are selected, kind by kind.
DeleteGather(t) ==
  /\ req[t].pc = "de_gather"
  /\ LET r == req[t]
     IN req' = [req EXCEPT ![t] =
                  [r EXCEPT !.pc = "de_perfs",
                            !.ids = PlayersOf("batting", r.matchId)
                                    \o PlayersOf("fielding", r.matchId),
                            !.todo = << [kind |-> "batting", amount |-> 0],
                                        [kind |-> "fielding", amount |-> 0] >>]]
  /\ UNCHANGED <<dirVars, pureVars, matches, history, perfs, stats, serial, quota>>

\* The match's rows of one kind are deleted.
DeletePerfs(t) ==
  /\ req[t].pc = "de_perfs"
  /\ LET r == req[t]
         k == Head(r.todo).kind
     IN /\ perfs' = {x \in perfs : ~(x.kind = k /\ x.match_id = r.matchId)}
        /\ req' = [req EXCEPT ![t] =
                     IF Tail(r.todo) = <<>>
                     THEN [r EXCEPT !.pc = "de_history", !.todo = <<>>]
                     ELSE [r EXCEPT !.todo = Tail(r.todo)]]
  /\ UNCHANGED <<dirVars, pureVars, matches, history, stats, serial, quota>>

\* The match's import_history rows are deleted.
DeleteHistory(t) ==
  /\ req[t].pc = "de_history"
  /\ history' = {h \in history : h.match_id # req[t].matchId}
  /\ req' = [req EXCEPT ![t].pc = "de_match"]
  /\ UNCHANGED <<dirVars, pureVars, matches, perfs, stats, serial, quota>>

\* The match row is deleted (ON DELETE CASCADE takes what still points at
\* it) and the recompute loops run over the gathered ids.
DeleteMatch(t) ==
  /\ req[t].pc = "de_match"
  /\ LET r == req[t]
     IN /\ matches' = {m \in matches : m.id # r.matchId}
        /\ perfs' = {x \in perfs : x.match_id # r.matchId}
        /\ history' = {h \in history : h.match_id # r.matchId}
        /\ req' = [req EXCEPT ![t] = StartRecompute(r, r.ids, r.season)]
  /\ UNCHANGED <<dirVars, pureVars, stats, serial, quota>>

\* The delete of the match row fails: 500 is answered at once.
DeleteMatchFail(t) ==
  /\ req[t].pc = "de_match"
  /\ req' = [req EXCEPT ![t] = Respond(req[t], 500, FALSE)]
  /\ UNCHANGED <<dirVars, pureVars, matches, history, perfs, stats, serial, quota>>

\* A directory of two players, no request in flight, empty match tables.
PerfInit ==
  /\ players = << [id |-> NewPlayerId(1), name |-> Str_Ed],
                  [id |-> NewPlayerId(2), name |-> Str_Al] >>
  /\ aliases = <<>>
  /\ overrides = <<>>
  /\ playerCache = NullCache
  /\ aliasCache = NullCache
  /\ task = [t \in Tasks |-> IdleTask]
  /\ PerfIdle

\* The same directory after CardA was imported as match m1, its two batting
\* entries resolved to the two players, and the aggregates were computed.
PerfLoaded ==
  /\ players = << [id |-> NewPlayerId(1), name |-> Str_Ed],
                  [id |-> NewPlayerId(2), name |-> Str_Al] >>
  /\ aliases = <<>>
  /\ overrides = <<>>
  /\ playerCache = NullCache
  /\ aliasCache = NullCache
  /\ task = [t \in Tasks |-> IdleTask]
  /\ matches = {[id |-> MatchIdPool[1], season_id |-> CardA.season_id,
                 raw_html_hash |-> CardA.content_hash]}
  /\ history = {[match_id |-> MatchIdPool[1], content_hash |-> CardA.content_hash]}
  /\ perfs = {[id |-> i, kind |-> "batting", match_id |-> MatchIdPool[1],
               player_id |-> NewPlayerId(i), amount |-> CardA.entries[i].amount]
              : i \in 1..Len(CardA.entries)}
  /\ stats = {[kind |-> "batting", player_id |-> NewPlayerId(i),
               season_id |-> CardA.season_id, matchesPlayed |-> 1,
               total |-> CardA.entries[i].amount] : i \in 1..Len(CardA.entries)}
  /\ req = [t \in Tasks |-> IdleReq]
  /\ serial = [match |-> 1, perf |-> Len(CardA.entries)]

PerfStep(t) ==
  \/ \E card \in Scorecards : ImportStart(t, card)
  \/ ImportMatchInsert(t)
  \/ ImportHistoryInsert(t)
  \/ \E p \in PlayerIds : ImportEntry(t, p)
  \/ \E p \in PlayerIds : ImportFieldingSelect(t, p)
  \/ ImportFieldingWrite(t)
  \/ ImportThrow(t)
  \/ \E k \in Kinds, id \in 1..(serial.perf + 1), a \in EditAmounts, m \in MatchIds :
       EditStart(t, k, id, a, m)
  \/ EditUpdate(t)
  \/ \E k \in Kinds, id \in 1..(serial.perf + 1), p \in PlayerIds, m \in MatchIds :
       ReassignStart(t, k, id, p, m)
  \/ ReassignCheck(t)
  \/ ReassignUpdate(t)
  \/ MatchLookup(t)
  \/ \E m \in MatchIds : DeleteStart(t, m)
  \/ DeleteGather(t)
  \/ DeletePerfs(t)
  \/ DeleteHistory(t)
  \/ DeleteMatch(t)
  \/ DeleteMatchFail(t)
  \/ RecomputeRead(t)
  \/ RecomputeWrite(t)

\* One request at a time.
NextPerfSeq == PerfStep("t1")

PerfSeqInit == PerfInit /\ quota = -1 /\ PureIdle

SpecPerfSeq == PerfSeqInit /\ [][NextPerfSeq]_vars

\* Two requests interleaved at their awaits, MaxRequests requests in all.
NextPerf == \E t \in Tasks : PerfStep(t)

PerfConcInit == (PerfInit \/ PerfLoaded) /\ quota = MaxRequests /\ PureIdle

SpecPerf == PerfConcInit /\ [][NextPerf]_vars

Init == DirInit /\ PerfIdle /\ quota = -1 /\ PureIdle

\* The directory used by one caller at a time: every operation of the
\* resolver and both directory routes, each call running to its end before
\* the next starts.
Next ==
  \E t \in {"t1"} :
    \/ \E n \in RawNames, m \in {NoMatch, OverrideMatch} : StartResolve(t, n, m)
    \/ \E n \in RawNames : StartCreate(t, n)
    \/ \E es \in ImportEntries : StartImport(t, es)
    \/ InitPlayers(t)
    \/ InitPlayersFail(t)
    \/ InitAliases(t)
    \/ InitAliasesFail(t)
    \/ OverrideAnswer(t)
    \/ CreateInsert(t)
    \/ CreateInsertFail(t)
    \/ CreateAlias(t)
    \/ \E p \in PlayerIds, a \in {Str_Ed, Str_Al} : AddPlayerAlias(t, p, a)
    \/ \E p \in PlayerIds, n \in {Str_Ed} : AddMatchPlayerOverride(t, OverrideMatch, n, p)
    \/ \E n \in {Str_Ed, Str_Bo} : RoutePlayerCheck(t, n)
    \/ RoutePlayerInsert(t)
    \/ \E p \in PlayerIds, a \in {Str_Ed} : RouteAliasCheck(t, p, a)
    \/ RouteAliasInsert(t)
    \/ Finish(t)

Spec == Init /\ [][Next]_vars

\* Two requests of one server process interleaved at their awaits: name
\* resolutions with a match id, imports (which rebuild the cache and create
\* the players they do not find) and alias additions.  Every store query
\* succeeds.
NextConc ==
  \E t \in Tasks :
    \/ \E n \in {Str_Ed} : StartResolve(t, n, OverrideMatch)
    \/ \E es \in ImportEntries : StartImport(t, es)
    \/ InitPlayers(t)
    \/ InitAliases(t)
    \/ OverrideAnswer(t)
    \/ CreateInsert(t)
    \/ CreateAlias(t)
    \/ \E p \in PlayerIds, a \in {Str_Ed} : AddPlayerAlias(t, p, a)
    \/ Finish(t)

SpecConc == Init /\ [][NextConc]_vars

\* ------------------------------------------------------------------ claims
\* The player an alias row binds the alias to.
AliasTarget(rows, alias) ==
  rows[CHOOSE i \in 1..Len(rows) : rows[i].alias = alias].player_id

\* A resolvePlayerName call that has returned a value (found or not found).
Returned(tk) == tk.op = "resolve" /\ tk.pc = "done" /\ tk.out.kind # "raised"

\* C1: with an override (m, n) -> X and an alias n -> Y in the directory, every
\* resolvePlayerName(n, m) that returns returns X, and every
\* resolvePlayerName(n) without a match id returns Y.
C1_Precedence ==
  \A t \in Tasks :
    LET tk == task[t]
        n  == normalizePlayerName(tk.name)
    IN (/\ Returned(tk)
        /\ OverrideExists(overrides, OverrideMatch, n)
        /\ AliasExists(aliases, n))
       => /\ tk.mid = OverrideMatch =>
               tk.out.playerId = FindOverride(overrides, OverrideMatch, n).id
          /\ tk.mid = NoMatch => tk.out.playerId = AliasTarget(aliases, n)

\* C2: whenever an override row exists for (matchId, normalized name), a
\* resolvePlayerName(name, matchId) that returns has found the override's
\* player: it has not gone on to the alias, canonical-name or fuzzy steps.
C2_OverrideWins ==
  \A t \in Tasks :
    LET tk == task[t]
        n  == normalizePlayerName(tk.name)
    IN (Returned(tk) /\ tk.mid # NoMatch /\ OverrideExists(overrides, tk.mid, n))
       => /\ tk.out.kind = "found"
          /\ tk.out.playerId = FindOverride(overrides, tk.mid, n).id

\* C3: resolvePlayerName never raises: every call ends with a result or with
\* not-found, whatever the store reads gave.
C3_NeverRaises ==
  \A t \in Tasks :
    (task[t].op = "resolve" /\ task[t].pc = "done")
      => task[t].out.kind \in {"found", "notfound"}

\* C4: while a rebuild has replaced the player projection and not yet the
\* alias projection, no other call that has passed its cache check is about
\* to read the two caches: a reader never sees the new players with the old
\* (or no) aliases.
C4_RebuildAtomic ==
  \A t \in Tasks, u \in Tasks :
    (/\ t # u
     /\ task[t].pc = "r_override"
     /\ task[u].pc = "i_aliases"
     /\ playerCache.ver = task[u].ver)
    => aliasCache.ver = playerCache.ver

\* The cache is cleared (the next resolution rebuilds it) or holds every row
\* of the players and player_aliases tables.
CacheCurrent ==
  \/ playerCache.isNull
  \/ aliasCache.isNull
  \/ /\ \A i \in 1..Len(players) : MapHas(playerCache.map, players[i].id)
     /\ \A i \in 1..Len(aliases) :
          /\ MapHas(aliasCache.map, ToLowerCase(aliases[i].alias))
          /\ MapGet(aliasCache.map, ToLowerCase(aliases[i].alias)) = aliases[i].player_id

\* C5: when an operation that inserts a player or an alias has completed, the
\* cache is cleared or already contains the inserted row.
C5_MutationInvalidates ==
  \A t \in Tasks :
    (/\ task[t].pc = "done"
     /\ task[t].op \in {"create", "addAlias", "routePlayer", "routeAlias", "import"}
     /\ task[t].out.kind \in {"ok", "created"})
    => CacheCurrent

\* C6: whatever the interleaving of the createPlayerIfNotExists calls of the
\* imports, no two rows of players carry the same name.
C6_NoDuplicatePlayers ==
  \A i \in 1..Len(players), j \in 1..Len(players) :
    i # j => players[i].name # players[j].name

\* C8: addMatchPlayerOverride for a (matchId, displayedName) pair that already
\* has an override surfaces no error.
C8_OverrideIdempotent ==
  \A t \in Tasks :
    (task[t].op = "addOverride" /\ task[t].pc = "done")
      => task[t].out.kind # "raised"

\* C7: an addPlayerAlias call (made directly or by createPlayerIfNotExists)
\* whose normalized alias is already in player_aliases throws nothing, leaves
\* the table as it was and clears both caches.
C7_AliasIdempotent ==
  [][\A t \in Tasks :
       /\ (/\ task[t].pc = "idle"
           /\ task'[t].op = "addAlias"
           /\ AliasExists(aliases, normalizePlayerName(task'[t].name)))
          => /\ aliases' = aliases
             /\ task'[t].pc = "done"
             /\ task'[t].out.kind = "ok"
             /\ playerCache' = NullCache
             /\ aliasCache' = NullCache
       /\ (/\ task[t].pc = "c_alias"
           /\ task'[t].pc # "c_alias"
           /\ AliasExists(aliases, normalizePlayerName(task[t].name)))
          => /\ aliases' = aliases
             /\ task'[t].out.kind \notin {"raised", "error"}
             /\ playerCache' = NullCache
             /\ aliasCache' = NullCache]_vars

\* An addPlayerAlias call has returned and the alias is bound to another
\* player than the one it named: the alias was there before the call.
C7_Witness ==
  \E t \in Tasks :
    /\ task[t].op = "addAlias"
    /\ task[t].pc = "done"
    /\ task[t].out.kind = "ok"
    /\ AliasExists(aliases, normalizePlayerName(task[t].name))
    /\ AliasTarget(aliases, normalizePlayerName(task[t].name)) # task[t].pid
    /\ playerCache.isNull /\ aliasCache.isNull

\* No two rows of one kind share a (match, player).
PerfUnique ==
  \A x, y \in perfs :
    (x.kind = y.kind /\ x.match_id = y.match_id /\ x.player_id = y.player_id)
      => x.id = y.id

\* A reassign request stands before its check or its update while the new
\* player has another row of the kind in the match of the row to be moved.
ReassignOntoOccupied(t) ==
  /\ req[t].op = "reassign"
  /\ req[t].pc \in {"re_check", "re_update"}
  /\ PerfExists(req[t].kind, req[t].perfId)
  /\ Occupied(perfs, req[t].kind,
              PerfRow(req[t].kind, req[t].perfId).match_id,
              req[t].newPlayer, req[t].perfId)

\* C9: whatever import, stat-edit, reassign and delete requests do, one after
\* another or interleaved, no two performance rows of one kind share a
\* (match, player); and a step of a reassignment onto a player who has
\* another row of the kind in that match changes no performance row and
\* ends, if it ends the request, in a refusal.
C9_UniquePerMatchPlayer ==
  /\ []PerfUnique
  /\ [][\A t \in Tasks :
          (ReassignOntoOccupied(t) /\ req'[t] # req[t])
            => /\ perfs' = perfs
               /\ \/ req'[t].pc = "re_update"
                  \/ req'[t].pc = "done" /\ ~req'[t].success]_vars

\* A reassignment was refused by the unique constraint at its update: its
\* check had let it through.
C9_Witness ==
  \E t \in Tasks :
    /\ req[t].op = "reassign"
    /\ req[t].pc = "done"
    /\ req[t].status = 500
    /\ perfs # {}

Seasons == {card.season_id : card \in Scorecards}

Quiescent == \A t \in Tasks : Free(t)

\* The aggregate row of (kind, player, season) is the reducer's value on the
\* player's rows of the season; a player without rows may have no row.
AggregateCurrent(k, p, s) ==
  LET rows == SeasonRows(perfs, k, p, s)
      agg == CalculateStats(rows)
  IN (rows # {} \/ StatsExists(k, p, s))
       => \E x \in stats : /\ x.kind = k /\ x.player_id = p /\ x.season_id = s
                           /\ x.matchesPlayed = agg.matchesPlayed
                           /\ x.total = agg.total

\* C10: when no request is running, every season aggregate equals the
\* reducer applied to the player's current performance rows of the season,
\* also after a request that answered with an error.
C10_RecomputedAtQuiescence ==
  Quiescent => \A k \in Kinds, p \in PlayerIds, s \in Seasons : AggregateCurrent(k, p, s)

\* ------------------------------------------------------------------------
\* Recomputations racing each other.  Every store query succeeds and every
\* request names the match its row belongs to, so each change of a row is
\* followed by the recomputation of its own request.
RaceStep(t) ==
  \/ \E card \in Scorecards : ImportStart(t, card)
  \/ ImportMatchInsert(t)
  \/ ImportHistoryInsert(t)
  \/ \E p \in PlayerIds : ImportEntry(t, p)
  \/ \E p \in PlayerIds : ImportFieldingSelect(t, p)
  \/ ImportFieldingWrite(t)
  \/ \E x \in perfs, a \in EditAmounts : EditStart(t, x.kind, x.id, a, x.match_id)
  \/ EditUpdate(t)
  \/ \E x \in perfs, p \in PlayerIds :
       ReassignStart(t, x.kind, x.id, p, x.match_id)
  \/ ReassignCheck(t)
  \/ ReassignUpdate(t)
  \/ MatchLookup(t)
  \/ \E m \in MatchIds : DeleteStart(t, m)
  \/ DeleteGather(t)
  \/ DeletePerfs(t)
  \/ DeleteHistory(t)
  \/ DeleteMatch(t)
  \/ RecomputeRead(t)
  \/ RecomputeWrite(t)

NextRace == \E t \in Tasks : RaceStep(t)

SpecRace == PerfConcInit /\ [][NextRace]_vars

\* C11: once every recomputation and every request that changed rows has
\* finished, the stored batting aggregate of each player equals the reducer
\* applied to the rows the player then has.
C11_RecomputeConverges ==
  Quiescent =>
    \A p \in PlayerIds, s \in Seasons :
      \A x \in stats :
        (x.kind = "batting" /\ x.player_id = p /\ x.season_id = s)
          => /\ x.matchesPlayed = CalculateStats(SeasonRows(perfs, "batting", p, s)).matchesPlayed
             /\ x.total = CalculateStats(SeasonRows(perfs, "batting", p, s)).total

\* ------------------------------------------------------------------------
\* The reducers (calculateBattingStats, calculateBowlingStats,
\* calculateFieldingStats) on the rows of one player, with every field the
\* ratios read.  A JavaScript number that a division produced is a tagged
\* fraction: finite with a non-zero denominator, Infinity, or NaN.

\* How many rows the reduced array holds.
MaxRows == 2

Finite(n, d) == [tag |-> "finite", num |-> n, den |-> d]

JsInfinity == [tag |-> "Infinity", num |-> 0, den |-> 0]

JsNaN == [tag |-> "NaN", num |-> 0, den |-> 0]

JsZero == Finite(0, 1)

\* n / d of two numbers.
JsDiv(n, d) ==
  IF d # 0 THEN Finite(n, d)
  ELSE IF n = 0 THEN JsNaN
  ELSE JsInfinity

\* v * 100.
Times100(v) == IF v.tag = "finite" THEN Finite(v.num * 100, v.den) ELSE v

\* cond ? n / d : 0, the guard as the code writes it.
Guarded(cond, n, d) == IF cond THEN JsDiv(n, d) ELSE JsZero

RECURSIVE SumField(_, _)
\* performances.reduce((sum, p) => sum + p.f, 0)
SumField(ps, f) ==
  IF ps = <<>> THEN 0 ELSE ps[1][f] + SumField(Tail(ps), f)

\* new Set(performances.map(p => p.match_id)).size
MatchCount(ps) == Cardinality({ps[i].match_id : i \in 1..Len(ps)})

\* The returned boundaryRate without the test for Infinity.
BoundaryRateRaw(v) == v

\* boundaryRate === Infinity ? 0 : boundaryRate
BoundaryRateOut(v) == IF v = JsInfinity THEN JsZero ELSE v

calculateBattingStats(performances) ==
  LET rowsOf == 1..Len(performances)
      totalRuns == SumField(performances, "runs")
      totalBalls == SumField(performances, "balls")
      fours == SumField(performances, "fours")
      sixes == SumField(performances, "sixes")
      notOuts == Cardinality({i \in rowsOf : performances[i].not_out})
      dismissals == Len(performances) - notOuts
      bowledLbw == Cardinality({i \in rowsOf : performances[i].bowled_lbw
                                                /\ ~performances[i].not_out})
      totalBoundaries == fours + sixes
      boundaryRate == IF totalBoundaries > 0
                      THEN JsDiv(totalBalls, totalBoundaries) ELSE JsInfinity
  IN [matchesPlayed |-> MatchCount(performances),
      totalRuns |-> totalRuns,
      totalBalls |-> totalBalls,
      dismissals |-> dismissals,
      notOuts |-> notOuts,
      fours |-> fours,
      sixes |-> sixes,
      bowledLbw |-> bowledLbw,
      average |-> Guarded(dismissals > 0, totalRuns, dismissals),
      strikeRate |-> Times100(Guarded(totalBalls > 0, totalRuns, totalBalls)),
      boundaryRate |-> BoundaryRateOut(boundaryRate),
      boundaryPercentage |->
        Times100(Guarded(totalBalls > 0, totalBoundaries, totalBalls)),
      bowledLbwPercentage |->
        Times100(Guarded(dismissals > 0, bowledLbw, dismissals))]

calculateBowlingStats(performances) ==
  LET totalOvers == SumField(performances, "overs")
      totalBalls == SumField(performances, "balls")
      totalRuns == SumField(performances, "runs_conceded")
      totalWickets == SumField(performances, "wickets")
      totalDots == SumField(performances, "dots")
  IN [matchesBowled |-> MatchCount(performances),
      totalOvers |-> totalOvers,
      totalBalls |-> totalBalls,
      totalRuns |-> totalRuns,
      totalWickets |-> totalWickets,
      totalMaidens |-> SumField(performances, "maidens"),
      totalDots |-> totalDots,
      totalWides |-> SumField(performances, "wides"),
      totalNoBalls |-> SumField(performances, "no_balls"),
      average |-> Guarded(totalWickets > 0, totalRuns, totalWickets),
      strikeRate |-> Guarded(totalWickets > 0, totalBalls, totalWickets),
      economy |-> Guarded(totalOvers > 0, totalRuns, totalOvers),
      dotPercentage |-> Times100(Guarded(totalBalls > 0, totalDots, totalBalls))]

calculateFieldingStats(performances) ==
  LET matchesPlayed == MatchCount(performances)
      totalCatches == SumField(performances, "catches")
      totalRunOuts == SumField(performances, "run_outs")
      totalStumpings == SumField(performances, "stumpings")
      totalDismissals == totalCatches + totalRunOuts + totalStumpings
  IN [matchesPlayed |-> matchesPlayed,
      totalCatches |-> totalCatches,
      totalRunOuts |-> totalRunOuts,
      totalStumpings |-> totalStumpings,
      totalDismissals |-> totalDismissals,
      dismissalsPerMatch |-> Guarded(matchesPlayed > 0, totalDismissals, matchesPlayed)]

\* The reducer of a kind.
Reduce(k, performances) ==
  IF k = "batting" THEN calculateBattingStats(performances)
  ELSE IF k = "bowling" THEN calculateBowlingStats(performances)
  ELSE calculateFieldingStats(performances)

ReducerKinds == {"batting", "bowling", "fielding"}

\* What the import writes into a batting row for a parsed entry.
BattingEntries ==
  { [runs |-> 0, balls |-> 0, fours |-> 0, sixes |-> 0,
     not_out |-> FALSE, bowled_lbw |-> TRUE, batting_position |-> 1],
    [runs |-> 2, balls |-> 3, fours |-> 0, sixes |-> 0,
     not_out |-> TRUE, bowled_lbw |-> FALSE, batting_position |-> 2],
    [runs |-> 6, balls |-> 2, fours |-> 1, sixes |-> 0,
     not_out |-> FALSE, bowled_lbw |-> FALSE, batting_position |-> 3] }

BowlingEntries ==
  { [overs |-> 0, balls |-> 0, maidens |-> 0, runs_conceded |-> 0,
     wickets |-> 0, dots |-> 0, wides |-> 0, no_balls |-> 0],
    [overs |-> 2, balls |-> 12, maidens |-> 0, runs_conceded |-> 9,
     wickets |-> 1, dots |-> 5, wides |-> 1, no_balls |-> 0] }

FieldingEntries ==
  { [catches |-> 1, run_outs |-> 0, stumpings |-> 0],
    [catches |-> 0, run_outs |-> 1, stumpings |-> 0] }

EntriesOf(k) ==
  IF k = "batting" THEN BattingEntries
  ELSE IF k = "bowling" THEN BowlingEntries
  ELSE FieldingEntries

\* A whitelist that lets every column through.
AllFields(k) ==
  {"runs", "balls", "fours", "sixes", "not_out", "dismissal_text", "overs",
   "maidens", "runs_conceded", "wickets", "dots", "wides", "no_balls",
   "economy", "catches", "run_outs", "stumpings", "player_id", "match_id",
   "bowled_lbw", "batting_position"}

\* allowedFields of the update-performance route.
AllowedFields(k) ==
  IF k = "batting"
  THEN {"runs", "balls", "fours", "sixes", "not_out", "dismissal_text"}
  ELSE IF k = "bowling"
  THEN {"overs", "balls", "maidens", "runs_conceded", "wickets", "dots",
        "wides", "no_balls", "economy"}
  ELSE {"catches", "run_outs", "stumpings"}

\* Bodies of stat-edit requests: one key and the value sent for it.
EditUpdates ==
  { [key |-> "runs", value |-> -1],
    [key |-> "balls", value |-> 0],
    [key |-> "fours", value |-> -1],
    [key |-> "wickets", value |-> 0],
    [key |-> "overs", value |-> 0],
    [key |-> "catches", value |-> 0],
    [key |-> "player_id", value |-> 0] }

\* The import inserts a row of the player for one more match.
RowInsert(e) ==
  /\ e \in EntriesOf(arg.kind)
  /\ Len(arg.rows) < MaxRows
  /\ arg' = [arg EXCEPT !.rows =
               Append(@, [f \in DOMAIN e \cup {"match_id", "player_id"} |->
                            IF f = "match_id" THEN MatchIdPool[Len(arg.rows) + 1]
                            ELSE IF f = "player_id" THEN NewPlayerId(1)
                            ELSE e[f]])]
  /\ ret' = <<>>
  /\ UNCHANGED <<dirVars, perfVars>>

\* A stat edit of the player's i-th row: the keys outside the whitelist are
\* dropped, the others are written as they came.
RowEdit(i, u) ==
  /\ i \in 1..Len(arg.rows)
  /\ arg' = IF u.key \in AllowedFields(arg.kind)
            THEN [arg EXCEPT !.rows[i][u.key] = u.value]
            ELSE arg
  /\ ret' = <<>>
  /\ UNCHANGED <<dirVars, perfVars>>

\* update...SeasonStats reduces the rows.
RowsReduce ==
  /\ ret = <<>>
  /\ ret' = <<Reduce(arg.kind, arg.rows)>>
  /\ arg' = arg
  /\ UNCHANGED <<dirVars, perfVars>>

ReducerInit ==
  /\ DirInit
  /\ PerfIdle
  /\ quota = -1
  /\ arg \in {[kind |-> k, rows |-> <<>>] : k \in ReducerKinds}
  /\ ret = <<>>

NextReducer ==
  \/ \E e \in BattingEntries \cup BowlingEntries \cup FieldingEntries : RowInsert(e)
  \/ \E i \in 1..MaxRows, u \in EditUpdates : RowEdit(i, u)
  \/ RowsReduce

SpecReducer == ReducerInit /\ [][NextReducer]_vars

\* The array without its i-th row.
RemoveAt(ps, i) == SubSeq(ps, 1, i - 1) \o SubSeq(ps, i + 1, Len(ps))

\* C12: for the batting rows a player can have after imports and stat
\* edits, removing one row and recomputing never increases totalRuns.
C12_RemovalNeverIncreasesRuns ==
  arg.kind = "batting" =>
    \A i \in 1..Len(arg.rows) :
      calculateBattingStats(RemoveAt(arg.rows, i)).totalRuns
        <= calculateBattingStats(arg.rows).totalRuns

\* The ratio fields of a reducer's result, each with its denominator.
RatiosOf(k, out) ==
  IF k = "batting"
  THEN { [value |-> out.average, denominator |-> out.dismissals],
         [value |-> out.bowledLbwPercentage, denominator |-> out.dismissals],
         [value |-> out.strikeRate, denominator |-> out.totalBalls],
         [value |-> out.boundaryPercentage, denominator |-> out.totalBalls],
         [value |-> out.boundaryRate, denominator |-> out.fours + out.sixes] }
  ELSE IF k = "bowling"
  THEN { [value |-> out.average, denominator |-> out.totalWickets],
         [value |-> out.strikeRate, denominator |-> out.totalWickets],
         [value |-> out.economy, denominator |-> out.totalOvers],
         [value |-> out.dotPercentage, denominator |-> out.totalBalls] }
  ELSE { [value |-> out.dismissalsPerMatch, denominator |-> out.matchesPlayed] }

\* The count fields of a reducer's result.
CountsOf(k, out) ==
  IF k = "batting"
  THEN { out.matchesPlayed, out.totalRuns, out.totalBalls, out.dismissals,
         out.notOuts, out.fours, out.sixes, out.bowledLbw }
  ELSE IF k = "bowling"
  THEN { out.matchesBowled, out.totalOvers, out.totalBalls, out.totalRuns,
         out.totalWickets, out.totalDots, out.totalWides, out.totalNoBalls,
         out.totalMaidens }
  ELSE { out.matchesPlayed, out.totalCatches, out.totalRunOuts,
         out.totalStumpings, out.totalDismissals }

\* C13: the reducers never return NaN or an infinite value; a ratio whose
\* denominator is zero is returned as 0; on an empty row set every field is 0.
C13_NoNaNNoInfinity ==
  ret # <<>> =>
    /\ \A r \in RatiosOf(arg.kind, ret[1]) :
         /\ r.value.tag = "finite"
         /\ r.denominator = 0 => r.value = JsZero
    /\ arg.rows = <<>> =>
         /\ \A c \in CountsOf(arg.kind, ret[1]) : c = 0
         /\ \A r \in RatiosOf(arg.kind, ret[1]) : r.value = JsZero

\* A batting reduction with runs but neither a dismissal nor a boundary.
C13_Witness ==
  /\ ret # <<>>
  /\ arg.kind = "batting"
  /\ ret[1].totalRuns > 0
  /\ ret[1].dismissals = 0
  /\ ret[1].fours + ret[1].sixes = 0
  /\ ret[1].average = JsZero
  /\ ret[1].boundaryRate = JsZero

\* ---------------------------------------------------------------------
\* Import requests only, interleaved at their awaits: no row is deleted.
\* ---------------------------------------------------------------------
ImportStep(t) ==
  \/ \E card \in Scorecards : ImportStart(t, card)
  \/ ImportMatchInsert(t)
  \/ ImportHistoryInsert(t)
  \/ \E p \in PlayerIds : ImportEntry(t, p)
  \/ \E p \in PlayerIds : ImportFieldingSelect(t, p)
  \/ ImportFieldingWrite(t)
  \/ ImportThrow(t)
  \/ RecomputeRead(t)
  \/ RecomputeWrite(t)

NextImport == \E t \in Tasks : ImportStep(t)

SpecImport == PerfConcInit /\ [][NextImport]_vars

\* C15: whatever the sequence or interleaving of import requests, at most
\* one match row exists per content fingerprint.
C15_OneMatchPerFingerprint ==
  \A m1 \in matches, m2 \in matches :
    m1.raw_html_hash = m2.raw_html_hash => m1 = m2

\* ---------------------------------------------------------------------
\* The scorecard parser: bowling rows.  A number of a cell is kept in
\* tenths (42 is the text "4.2"); a cell that parseFloat does not read as
\* a number is NoNumber.
\* ---------------------------------------------------------------------
MaxCells == 6

NumCell(v) == [isNum |-> TRUE, v |-> v]

NoNumber == [isNum |-> FALSE, v |-> 0]

Cells == {NumCell(0), NumCell(10), NumCell(42), NoNumber}

BowlerNames == {<<>>, Str_Bo, Str_EdStar}

\* s.replace(/\*$/, '')
StripStar(s) ==
  IF s # <<>> /\ s[Len(s)] = "*" THEN SubSeq(s, 1, Len(s) - 1) ELSE s

\* The cells that parseFloat reads as numbers, in order.
NumericValues(dataCells) ==
  LET IsNum(c) == c.isNum
      kept == SelectSeq(dataCells, IsNum)
  IN [i \in 1..Len(kept) |-> kept[i].v]

\* The six-column layout applied whatever the number of values.
FieldsFullFormat(n) ==
  LET At(i) == IF i <= Len(n) THEN n[i] ELSE 0
  IN [overs |-> At(1), maidens |-> At(2), dots |-> At(3), runs |-> At(4),
      wickets |-> At(5), economy |-> At(6)]

\* The layout chosen from the number of values (at least four).
FieldsByArity(n) ==
  IF Len(n) >= 6
  THEN [overs |-> n[1], maidens |-> n[2], dots |-> n[3], runs |-> n[4],
        wickets |-> n[5], economy |-> n[6]]
  ELSE IF Len(n) >= 5
  THEN [overs |-> n[1], maidens |-> n[2], dots |-> 0, runs |-> n[3],
        wickets |-> n[4], economy |-> n[5]]
  ELSE [overs |-> n[1], maidens |-> 0, dots |-> 0, runs |-> n[2],
        wickets |-> n[3], economy |-> n[4]]

\* String(overs).split('.'): completed overs * 6 + the fractional digit.
OversToBalls(overs) == (overs \div 10) * 6 + (overs % 10)

NullEntry == [isNull |-> TRUE]

parseBowlingRow(row) ==
  LET playerName == Trim(StripStar(row.playerName))
      numericValues == NumericValues(row.data)
      f == FieldsByArity(numericValues)
  IN IF Len(row.data) < 4 THEN NullEntry
     ELSE IF row.playerName = <<>> THEN NullEntry
     ELSE IF Len(numericValues) < 4 THEN NullEntry
     ELSE [isNull |-> FALSE,
           playerName |-> playerName,
           overs |-> f.overs,
           balls |-> OversToBalls(f.overs),
           maidens |-> f.maidens,
           runs |-> f.runs,
           wickets |-> f.wickets,
           dots |-> f.dots,
           wides |-> 0,
           noBalls |-> 0,
           economy |-> IF f.economy = 0 /\ f.overs > 0
                       THEN JsDiv(f.runs, f.overs)
                       ELSE Finite(f.economy, 10)]

\* One more cell after the bowler's name.
CellAppend(c) ==
  /\ Len(arg.data) < MaxCells
  /\ arg' = [arg EXCEPT !.data = Append(@, c)]
  /\ ret' = <<>>
  /\ UNCHANGED <<dirVars, perfVars>>

BowlingRowParse ==
  /\ ret = <<>>
  /\ ret' = <<parseBowlingRow(arg)>>
  /\ arg' = arg
  /\ UNCHANGED <<dirVars, perfVars>>

BowlingInit ==
  /\ DirInit
  /\ PerfIdle
  /\ quota = -1
  /\ arg \in {[playerName |-> n, data |-> <<>>] : n \in BowlerNames}
  /\ ret = <<>>

NextBowling ==
  \/ \E c \in Cells : CellAppend(c)
  \/ BowlingRowParse

SpecBowling == BowlingInit /\ [][NextBowling]_vars

\* The numbers of the row being parsed.
Nums == NumericValues(arg.data)

AlphaWords == {"c", "b", "st", "run", "out", "not", "ed", "al", "bo", "sub"}

\* A word between parentheses, and the word.
ParenWords == {"(bo)"}

Unparen(w) == IF w = "(bo)" THEN "bo" ELSE w

Dismissals ==
  { <<"not", "out">>,
    <<"b", "al">>,
    <<"c", "ed", "b", "al">>,
    <<"c", "&", "b", "al">>,
    <<"st", "ed", "b", "al">>,
    <<"run", "out", "(bo)">>,
    <<"c", "ed", "b", "al", "run", "out", "(bo)">> }

\* ([a-z\s]+?)(?:\s+b\s+|$) tried at word i: the last word of the shortest
\* group, 0 when there is none.  atEnd tells whether the group may end the text.
LazyGroup(t, i, atEnd) ==
  LET Ends(j) == /\ \A k \in i..j : t[k] \in AlphaWords
                 /\ \/ (j + 2 <= Len(t) /\ t[j + 1] = "b")
                    \/ (atEnd /\ j = Len(t))
      ends == {j \in i..Len(t) : Ends(j)}
  IN IF ends = {} THEN 0 ELSE CHOOSE j \in ends : \A k \in ends : j <= k

\* The two catch patterns, the second tried when the first fails: the
\* group, <<>> when neither matches.
CatchMatch(t) ==
  LET withAnd == IF Len(t) >= 4 /\ t[2] = "&" /\ t[3] = "b"
                 THEN LazyGroup(t, 4, TRUE) ELSE 0
      plain == LazyGroup(t, 2, TRUE)
      second == LazyGroup(t, 2, FALSE)
  IN IF Len(t) < 2 \/ t[1] # "c" THEN <<>>
     ELSE IF withAnd # 0 THEN SubSeq(t, 4, withAnd)
     ELSE IF plain # 0 THEN SubSeq(t, 2, plain)
     ELSE IF second # 0 THEN SubSeq(t, 2, second)
     ELSE <<>>

\* dismissal.includes('c & b') and /c\s*&\s*b\s+([a-z\s]+)/: the words
\* after the first "c & b", as far as they are letters.
BowlerMatch(t) ==
  LET at == {i \in 1..Len(t) - 3 :
               /\ t[i] = "c" /\ t[i + 1] = "&" /\ t[i + 2] = "b"
               /\ t[i + 3] \in AlphaWords}
      i == CHOOSE x \in at : \A y \in at : x <= y
      last == CHOOSE j \in (i + 3)..Len(t) :
                /\ \A k \in (i + 3)..j : t[k] \in AlphaWords
                /\ j = Len(t) \/ t[j + 1] \notin AlphaWords
  IN IF at = {} THEN <<>> ELSE SubSeq(t, i + 3, last)

\* /run\s*out\s*\(?([a-z\s]+?)\)?(?:\s|$)/: the word after the first
\* "run out" that a word follows, <<>> when that word is not of letters.
RunOutMatch(t) ==
  LET at == {i \in 1..Len(t) - 2 :
               /\ t[i] = "run" /\ t[i + 1] = "out"
               /\ t[i + 2] \in AlphaWords \cup ParenWords}
      i == CHOOSE x \in at : \A y \in at : x <= y
  IN IF at = {} THEN <<>> ELSE <<Unparen(t[i + 2])>>

\* /^st\s+([a-z\s]+?)\s+b\s+/
StumpingMatch(t) ==
  LET j == LazyGroup(t, 2, FALSE)
  IN IF Len(t) >= 2 /\ t[1] = "st" /\ j # 0 THEN SubSeq(t, 2, j) ELSE <<>>

\* Parentheses removed, a leading sub / wk marker dropped.
cleanFielderName(name) ==
  LET bare == [i \in 1..Len(name) |-> Unparen(name[i])]
  IN IF bare # <<>> /\ bare[1] \in {"sub", "wk"} THEN Tail(bare) ELSE bare

\* The fielders one dismissal text credits: the catcher, the run-out
\* fielder and the keeper, <<>> for none.
CreditsOf(t) ==
  LET caught == CatchMatch(t)
      catcher == IF caught # <<>> /\ BowlerMatch(t) # <<>>
                 THEN BowlerMatch(t) ELSE caught
  IN [catcher |-> IF catcher # <<>> /\ catcher # <<"sub">>
                  THEN cleanFielderName(catcher) ELSE <<>>,
      fielder |-> cleanFielderName(RunOutMatch(t)),
      keeper |-> cleanFielderName(StumpingMatch(t))]

\* existing = fieldingMap.get(name) || {...}; existing[field]++; set
Credit(fieldingMap, name, field) ==
  LET existing == IF MapHas(fieldingMap, name) THEN MapGet(fieldingMap, name)
                  ELSE [playerName |-> name, catches |-> 0, runOuts |-> 0,
                        stumpings |-> 0]
  IN IF name = <<>> THEN fieldingMap
     ELSE MapSet(fieldingMap, name, [existing EXCEPT ![field] = @ + 1])

RECURSIVE FieldingFold(_, _)
FieldingFold(battingEntries, fieldingMap) ==
  IF battingEntries = <<>> THEN fieldingMap
  ELSE LET c == CreditsOf(battingEntries[1].dismissalText)
           m1 == Credit(fieldingMap, c.catcher, "catches")
           m2 == Credit(m1, c.fielder, "runOuts")
           m3 == Credit(m2, c.keeper, "stumpings")
       IN FieldingFold(Tail(battingEntries), m3)

\* Array.from(fieldingMap.values())
parseFieldingFromDismissals(battingEntries) ==
  LET fieldingMap == FieldingFold(battingEntries, <<>>)
  IN [i \in 1..Len(fieldingMap) |-> fieldingMap[i].val]

\* ---------------------------------------------------------------------
\* The scorecard parser: a document is its two innings containers, each
\* absent or present with the rows of its batting table and of its
\* bowling table.
\* ---------------------------------------------------------------------
MaxBattingRows == 2

\* The first cell of a batting row: a player link, a player link beside
\* the words "not out", or the label of the extras row.
RowKinds == {"player", "playerNotOut", "extras"}

BattingRows ==
  [kind : RowKinds, name : {Str_Ed, Str_EdStar}, dismissal : Dismissals]

BowlingTables ==
  { <<>>,
    << [playerName |-> Str_Bo,
        data |-> <<NumCell(10), NumCell(0), NumCell(42), NumCell(10),
                   NumCell(42)>>] >> }

NoContainer == [present |-> FALSE, rows |-> <<>>, bowling |-> <<>>]

InningsDivs == {"ballByBallTeam1", "ballByBallTeam2"}

checkBowledOrLBW(dismissalText) ==
  \/ Len(dismissalText) >= 2 /\ dismissalText[1] = "b"
  \/ dismissalText = <<"bowled">>
  \/ \E i \in 1..Len(dismissalText) : dismissalText[i] = "lbw"

\* The entry pushed for a row that has a player link; the stat cells of
\* the rows read 1, 1, 0, 0.
BattingEntry(row, position) ==
  LET stripped == Trim(StripStar(row.name))
      notOut == \/ row.dismissal = <<"not", "out">>
                \/ (stripped # <<>> /\ stripped[Len(stripped)] = "*")
                \/ row.kind = "playerNotOut"
  IN [playerName |-> Trim(StripStar(stripped)),
      runs |-> 1, balls |-> 1, fours |-> 0, sixes |-> 0,
      notOut |-> notOut,
      dismissalText |-> row.dismissal,
      battingPosition |-> position,
      isBowledOrLBW |-> checkBowledOrLBW(row.dismissal)]

\* The rows that are neither the extras nor the total row.
PlayerRows(rows) ==
  LET Kept(r) == r.kind # "extras"
  IN SelectSeq(rows, Kept)

parseBowlingTable(inningsDiv) ==
  LET parsed == [i \in 1..Len(inningsDiv.bowling) |->
                   parseBowlingRow(inningsDiv.bowling[i])]
      Entry(e) == ~e.isNull
  IN SelectSeq(parsed, Entry)

ParseInnings(divId, inningsDiv) ==
  LET kept == PlayerRows(inningsDiv.rows)
      battingEntries == [i \in 1..Len(kept) |-> BattingEntry(kept[i], i)]
  IN [team |-> divId,
      battingEntries |-> battingEntries,
      bowlingEntries |-> parseBowlingTable(inningsDiv),
      fieldingEntries |-> parseFieldingFromDismissals(battingEntries),
      total |-> SumField(battingEntries, "runs"),
      wickets |-> Cardinality({i \in 1..Len(battingEntries) :
                                 ~battingEntries[i].notOut})]

\* The function returns in every case; a container that is absent is
\* passed over.
parseCricClubsScorecard(doc) ==
  [raised |-> FALSE,
   innings |->
     (IF doc.ballByBallTeam1.present
      THEN <<ParseInnings("ballByBallTeam1", doc.ballByBallTeam1)>> ELSE <<>>)
     \o
     (IF doc.ballByBallTeam2.present
      THEN <<ParseInnings("ballByBallTeam2", doc.ballByBallTeam2)>> ELSE <<>>)]

ContainerAdd(divId, table) ==
  /\ ~arg[divId].present
  /\ arg' = [arg EXCEPT ![divId] =
               [present |-> TRUE, rows |-> <<>>, bowling |-> table]]
  /\ ret' = <<>>
  /\ UNCHANGED <<dirVars, perfVars>>

BattingRowAdd(divId, row) ==
  /\ arg[divId].present
  /\ Len(arg.ballByBallTeam1.rows) + Len(arg.ballByBallTeam2.rows)
       < MaxBattingRows
  /\ arg' = [arg EXCEPT ![divId].rows = Append(@, row)]
  /\ ret' = <<>>
  /\ UNCHANGED <<dirVars, perfVars>>

ScorecardParse ==
  /\ ret = <<>>
  /\ ret' = <<parseCricClubsScorecard(arg)>>
  /\ arg' = arg
  /\ UNCHANGED <<dirVars, perfVars>>

ScorecardInit ==
  /\ DirInit
  /\ PerfIdle
  /\ quota = -1
  /\ arg = [d \in InningsDivs |-> NoContainer]
  /\ ret = <<>>

NextScorecard ==
  \/ \E d \in InningsDivs, b \in BowlingTables : ContainerAdd(d, b)
  \/ \E d \in InningsDivs, r \in BattingRows : BattingRowAdd(d, r)
  \/ ScorecardParse

SpecScorecard == ScorecardInit /\ [][NextScorecard]_vars

\* C14: the parse raises when neither innings container is in the
\* document, and does not raise when at least one is.
C14_RaisesWithoutContainers ==
  ret # <<>> =>
    (ret[1].raised <=>
       (~arg.ballByBallTeam1.present /\ ~arg.ballByBallTeam2.present))

\* The innings of the result that was parsed from container d.
InningsOf(d) ==
  LET found == {i \in 1..Len(ret[1].innings) : ret[1].innings[i].team = d}
  IN ret[1].innings[CHOOSE i \in found : TRUE]

\* C16: notOut of a batting entry is the OR of three signals of its row:
\* the dismissal cell reads "not out", the displayed name ends with '*',
\* the first cell contains "not out".
C16_NotOutIsOrOfSignals ==
  ret # <<>> =>
    \A d \in InningsDivs :
      arg[d].present =>
        LET kept == PlayerRows(arg[d].rows)
        IN \A i \in 1..Len(kept) :
             InningsOf(d).battingEntries[i].notOut
               <=> \/ kept[i].dismissal = <<"not", "out">>
                   \/ kept[i].name[Len(kept[i].name)] = "*"
                   \/ kept[i].kind = "playerNotOut"

\* catches + run-outs + stumpings over the fielding entries.
CreditsGiven(fieldingEntries) ==
  SumField(fieldingEntries, "catches") + SumField(fieldingEntries, "runOuts")
    + SumField(fieldingEntries, "stumpings")

\* C18: a dismissal text gives at most one fielding credit, so the credits
\* of an innings never exceed the number of its batting entries.
C18_OneCreditPerDismissal ==
  ret # <<>> =>
    \A i \in 1..Len(ret[1].innings) :
      CreditsGiven(ret[1].innings[i].fieldingEntries)
        <= Len(ret[1].innings[i].battingEntries)

\* ---------------------------------------------------------------------
\* resolvePlayerName on a freshly built cache, without a match id and
\* with no alias registered: the name steps alone.
\* ---------------------------------------------------------------------
MaxDirectory == 3

Str_EdAl == <<"E", "d", " ", "A", "l">>

Str_EdBo == <<"E", "d", " ", "B", "o">>

Str_EdA == <<"E", "d", " ", "A">>

DirectoryNames == {Str_Al, Str_Bo, Str_EdAl, Str_EdBo}

\* A name that is empty once normalized.
Str_Star == <<"*">>

LookupNames == {Str_Ed, Str_EdA, Str_EdStar, Str_Star}

\* A cache variable holding the map m.
CacheOf(m) == [isNull |-> FALSE, ver |-> 0, map |-> m]

\* A player row is inserted.
DirectoryAdd(n) ==
  /\ Len(arg.players) < MaxDirectory
  /\ arg' = [arg EXCEPT !.players =
               Append(@, [id |-> NewPlayerId(Len(arg.players) + 1),
                          name |-> normalizePlayerName(n)])]
  /\ ret' = <<>>
  /\ UNCHANGED <<dirVars, perfVars>>

\* initializePlayerCache on the rows, then the lookup.
LookupCall ==
  /\ ret = <<>>
  /\ ret' = <<ResolveLookup(arg.rawName, NoOverride,
                            CacheOf(BuildPlayerMap(arg.players, <<>>)),
                            CacheOf(BuildAliasMap(<<>>, <<>>)))>>
  /\ arg' = arg
  /\ UNCHANGED <<dirVars, perfVars>>

LookupInit ==
  /\ DirInit
  /\ PerfIdle
  /\ quota = -1
  /\ arg \in {[rawName |-> n, players |-> <<>>] : n \in LookupNames}
  /\ ret = <<>>

NextLookup ==
  \/ \E n \in DirectoryNames : DirectoryAdd(n)
  \/ LookupCall

SpecLookup == LookupInit /\ [][NextLookup]_vars

\* The lower-cased normalized name that is looked up.
LookedUp == ToLowerCase(normalizePlayerName(arg.rawName))

\* The players whose canonical name has the first token and the last
\* initial of the name that is looked up.
InitialCandidates ==
  LET r == LastInitialMatch(LookedUp)
  IN {i \in 1..Len(arg.players) :
        LET parts == SplitSpace(ToLowerCase(arg.players[i].name))
        IN /\ r.matched
           /\ parts[1] = r.first
           /\ Len(parts) > 1
           /\ StartsWith(parts[Len(parts)], r.lastInit)}

\* No canonical name equals the name that is looked up.
NoExactName ==
  \A i \in 1..Len(arg.players) : ToLowerCase(arg.players[i].name) # LookedUp

\* C19: a name '<token> <letter>' with no exact match resolves to a
\* player whose first token is the token and whose last token starts with
\* the letter, whenever the directory has such a player.
C19_LastInitialResolves ==
  (ret # <<>> /\ NoExactName /\ InitialCandidates # {}) =>
    /\ ret[1].kind = "found"
    /\ \E i \in InitialCandidates : arg.players[i].id = ret[1].playerId

\* C20: a player returned through the first-token prefix step has a
\* canonical name whose first token begins with the first token of the
\* name that was looked up.
C20_FirstTokenOnly ==
  LET playerMap == BuildPlayerMap(arg.players, <<>>)
      firstName == SplitSpace(LookedUp)[1]
  IN (/\ ret # <<>>
      /\ ~MapHas(playerMap, LookedUp)
      /\ FirstNameStep(LookedUp, playerMap).kind = "found")
       => /\ ret[1].kind = "found"
          /\ StartsWith(SplitSpace(ToLowerCase(ret[1].playerName))[1], firstName)

\* ---------------------------------------------------------------------
\* Imports that went through their entry loops.
\* ---------------------------------------------------------------------

\* The scorecard a request is importing.
CardOf(r) == CHOOSE c \in Scorecards : c.content_hash = r.hash

\* The entries of a kind in a scorecard.
EntriesOfKind(card, k) ==
  {i \in 1..Len(card.entries) : card.entries[i].kind = k}

\* The import in slot t has passed its entry loops and recomputes.
ImportedAll(t) ==
  req[t].op = "import" /\ req[t].pc \in {"rc_read", "rc_write"}

\* C21: once an import has stored its entries, the match has as many
\* batting rows as the innings has batting entries.
C21_OneRowPerBattingEntry ==
  \A t \in Tasks :
    ImportedAll(t) =>
      Cardinality({x \in perfs : x.kind = "batting"
                                 /\ x.match_id = req[t].matchId})
        = Cardinality(EntriesOfKind(CardOf(req[t]), "batting"))

\* ---------------------------------------------------------------------
\* One caller that resolves a name right after createPlayerIfNotExists
\* has returned an id for it.  Every store query succeeds.
\* ---------------------------------------------------------------------

\* resolvePlayerName(name) is called with the name just given to
\* createPlayerIfNotExists; pid keeps the id that call returned.
ResolveCreated(t) ==
  /\ task[t].pc = "done"
  /\ task[t].op = "create"
  /\ task[t].out.kind = "created"
  /\ task' = [task EXCEPT ![t] =
                ResolveSync(Call("resolve", task[t].name, NoMatch,
                                 task[t].out.playerId),
                            playerCache, aliasCache)]
  /\ UNCHANGED <<players, aliases, overrides, playerCache, aliasCache>>
  /\ UNCHANGED <<perfVars, pureVars>>

NextTrip ==
  \E t \in {"t1"} :
    \/ \E n \in RawNames : StartResolve(t, n, NoMatch)
    \/ \E n \in RawNames : StartCreate(t, n)
    \/ ResolveCreated(t)
    \/ InitPlayers(t)
    \/ InitAliases(t)
    \/ CreateInsert(t)
    \/ CreateAlias(t)
    \/ \E n \in {Str_Ed, Str_Bo} : RoutePlayerCheck(t, n)
    \/ RoutePlayerInsert(t)
    \/ \E p \in PlayerIds, a \in {Str_Ed} : RouteAliasCheck(t, p, a)
    \/ RouteAliasInsert(t)
    \/ Finish(t)

SpecTrip == Init /\ [][NextTrip]_vars

\* C22: the resolution that follows createPlayerIfNotExists(name) at once
\* returns the id that call returned.
C22_CreateThenResolve ==
  \A t \in Tasks :
    (task[t].op = "resolve" /\ task[t].pc = "done" /\ task[t].pid # <<>>)
      => /\ task[t].out.kind = "found"
         /\ task[t].out.playerId = task[t].pid

\* Some key of the player cache starts with the lower-cased first token of
\* the name.
PrefixKey(m, name) ==
  \E i \in 1..Len(m) :
    StartsWith(m[i].key, SplitSpace(ToLowerCase(normalizePlayerName(name)))[1])

\* C23: createPlayerIfNotExists called on a built cache one of whose keys
\* starts with the first token of the name returns the id of an existing
\* player at once and leaves the tables and the cache as they were.
C23_PrefixBlocksCreation ==
  [][\A t \in Tasks :
       (/\ task[t].pc = "idle"
        /\ task'[t].op = "create"
        /\ ~playerCache.isNull
        /\ ~aliasCache.isNull
        /\ PrefixKey(playerCache.map, task'[t].name))
         => /\ task'[t].pc = "done"
            /\ task'[t].out.kind = "created"
            /\ task'[t].out.playerId \in PlayerIds
            /\ players' = players
            /\ aliases' = aliases
            /\ playerCache' = playerCache
            /\ aliasCache' = aliasCache]_vars

\* createPlayerIfNotExists has returned an id without an insert, for a
\* name that is no key of the cache and no alias.
C23_Witness ==
  \E t \in Tasks :
    /\ task[t].op = "create"
    /\ task[t].pc = "done"
    /\ task[t].out.kind = "created"
    /\ ~playerCache.isNull
    /\ ~aliasCache.isNull
    /\ PrefixKey(playerCache.map, task[t].name)
    /\ ~MapHas(playerCache.map, ToLowerCase(normalizePlayerName(task[t].name)))
    /\ ~MapHas(aliasCache.map, ToLowerCase(normalizePlayerName(task[t].name)))

\* C24: a resolution that awaited the override lookup completes with a
\* player or with null, also when the cache was cleared meanwhile.
C24_NoClearedCacheRead ==
  \A t \in Tasks :
    (task[t].op = "resolve" /\ task[t].pc = "done" /\ task[t].mid # NoMatch)
      => task[t].out.kind \in {"found", "notfound"}

\* The fielding rows of the match a request imports.
FieldingRowsOf(t) ==
  {x \in perfs : x.kind = "fielding" /\ x.match_id = req[t].matchId}

\* The fielding entries of a scorecard, one record per entry.
FieldingEntriesOf(card) ==
  {[i |-> i, amount |-> card.entries[i].amount] : i \in EntriesOfKind(card, "fielding")}

\* C25: when one request runs at a time and an import has written all its
\* entries, the credits summed over the fielding rows of the new match equal
\* the credits summed over the scorecard's fielding entries, also when
\* several entries went to the same player.
C25_FieldingCreditsConserved ==
  \A t \in Tasks :
    ImportedAll(t) =>
      SumAmount(FieldingRowsOf(t)) = SumAmount(FieldingEntriesOf(CardOf(req[t])))

\* Two fielding entries were resolved to one player: one row holds both.
C25_Witness ==
  \E t \in Tasks :
    /\ ImportedAll(t)
    /\ Cardinality(FieldingEntriesOf(CardOf(req[t]))) = 2
    /\ Cardinality(FieldingRowsOf(t)) = 1
    /\ \A x \in FieldingRowsOf(t) : x.amount = 2

\* ---------------------------------------------------------------------
\* Reassignment to the 'unclaimed' pseudo-player.
\* ---------------------------------------------------------------------

\* How many 'Unclaimed' players are ever created.
MaxUnclaimed == 2

Str_Unclaimed == <<"U", "n", "c", "l", "a", "i", "m", "e", "d">>

DigitChars == <<"0", "1", "2", "3", "4", "5", "6", "7", "8", "9">>

IsDigit(c) == \E i \in 1..Len(DigitChars) : DigitChars[i] = c

DigitValue(c) == (CHOOSE i \in 1..Len(DigitChars) : DigitChars[i] = c) - 1

RECURSIVE LeadingDigits(_)
\* What (\d+)? takes at the head of s.
LeadingDigits(s) ==
  IF s # <<>> /\ IsDigit(Head(s)) THEN <<Head(s)>> \o LeadingDigits(Tail(s))
  ELSE <<>>

RECURSIVE DigitsValue(_)
DigitsValue(d) ==
  IF d = <<>> THEN 0
  ELSE 10 * DigitsValue(SubSeq(d, 1, Len(d) - 1)) + DigitValue(d[Len(d)])

RECURSIVE NumberToString(_)
\* The decimal digits of a positive number in a template literal.
NumberToString(n) ==
  IF n < 10 THEN <<DigitChars[n + 1]>>
  ELSE NumberToString(n \div 10) \o <<DigitChars[(n % 10) + 1]>>

\* p.name.match(/Unclaimed #?(\d+)?/) and parseInt(match[1]) || 1: the
\* leftmost 'Unclaimed ', an optional '#', the digits that follow.
UnclaimedNumber(name) ==
  LET pre == Str_Unclaimed \o <<" ">>
      at == {i \in 1..Len(name) : StartsWith(SubSeq(name, i, Len(name)), pre)}
  IN IF at = {} THEN [matched |-> FALSE, num |-> 0]
     ELSE LET i == CHOOSE j \in at : \A l \in at : j <= l
              rest == SubSeq(name, i + Len(pre), Len(name))
              tail == IF rest # <<>> /\ Head(rest) = "#" THEN Tail(rest) ELSE rest
              d == LeadingDigits(tail)
          IN [matched |-> TRUE,
              num |-> IF d = <<>> \/ DigitsValue(d) = 0 THEN 1 ELSE DigitsValue(d)]

\* The reduce over allUnclaimed, from 0.
MaxNumber(ps) ==
  LET nums == {UnclaimedNumber(ps[i].name).num :
                 i \in {j \in 1..Len(ps) : UnclaimedNumber(ps[j].name).matched}}
  IN IF nums = {} THEN 0 ELSE CHOOSE n \in nums : \A l \in nums : l <= n

NewUnclaimedName(maxNumber) ==
  Str_Unclaimed \o <<" ", "#">>
    \o NumberToString(IF maxNumber = 0 THEN 1 ELSE maxNumber + 1)

\* The order of the characters in the names of the model.
CharOrder == <<" ", "#">> \o DigitChars \o UpperLetters \o LowerLetters

CharRank(c) ==
  IF \E i \in 1..Len(CharOrder) : CharOrder[i] = c
  THEN CHOOSE i \in 1..Len(CharOrder) : CharOrder[i] = c
  ELSE 0

RECURSIVE NameLess(_, _)
NameLess(a, b) ==
  IF b = <<>> THEN FALSE
  ELSE IF a = <<>> THEN TRUE
  ELSE IF Head(a) = Head(b) THEN NameLess(Tail(a), Tail(b))
  ELSE CharRank(Head(a)) < CharRank(Head(b))

RECURSIVE OrderByName(_)
\* .order('name'): rows of equal name keep their table order.
OrderByName(ps) ==
  IF ps = <<>> THEN <<>>
  ELSE LET init == OrderByName(SubSeq(ps, 1, Len(ps) - 1))
           last == ps[Len(ps)]
           k == Cardinality({i \in 1..Len(init) : ~NameLess(last.name, init[i].name)})
       IN SubSeq(init, 1, k) \o <<last>> \o SubSeq(init, k + 1, Len(init))

\* select id, name from players where name like 'Unclaimed%' order by name.
AllUnclaimed(ps) ==
  LET like(row) == StartsWith(row.name, Str_Unclaimed)
  IN OrderByName(SelectSeq(ps, like))

\* The players named 'Unclaimed...' who have a row of the kind in the match.
UsedUnclaimedIds(rows, ps, k, m) ==
  {x.player_id : x \in
     {y \in rows : /\ y.kind = k
                   /\ y.match_id = m
                   /\ \E i \in 1..Len(ps) : /\ ps[i].id = y.player_id
                                            /\ StartsWith(ps[i].name, Str_Unclaimed)}}

\* POST reassign-performance with newPlayerId 'unclaimed': the request is
\* taken and getOrCreateUnclaimedPlayer is entered.
ReassignUnclaimedStart(t, k, id, m) ==
  /\ Admit(t)
  /\ req' = [req EXCEPT ![t] =
               [IdleReq EXCEPT !.op = "unclaimed", !.pc = "un_used", !.kind = k,
                               !.perfId = id, !.matchId = m]]
  /\ UNCHANGED <<dirVars, pureVars, matches, history, perfs, stats, serial>>

\* The rows of the match are selected with their players' names.
UnclaimedUsed(t) ==
  /\ req[t].pc = "un_used"
  /\ req' = [req EXCEPT ![t].pc = "un_pick",
                        ![t].used = UsedUnclaimedIds(perfs, players, req[t].kind,
                                                     req[t].matchId)]
  /\ UNCHANGED <<dirVars, pureVars, matches, history, perfs, stats, serial, quota>>

\* The 'Unclaimed' players are selected: the first one not used in the match
\* is returned, or the name of a new one is made.
UnclaimedPick(t) ==
  /\ req[t].pc = "un_pick"
  /\ LET r == req[t]
         all == AllUnclaimed(players)
         free == {i \in 1..Len(all) : all[i].id \notin r.used}
     IN req' = [req EXCEPT ![t] =
                  IF free # {}
                  THEN [r EXCEPT !.pc = "re_fetch", !.used = {},
                                 !.newPlayer = all[CHOOSE i \in free :
                                                     \A j \in free : i <= j].id]
                  ELSE [r EXCEPT !.pc = "un_insert", !.used = {},
                                 !.newName = NewUnclaimedName(MaxNumber(all))]]
  /\ UNCHANGED <<dirVars, pureVars, matches, history, perfs, stats, serial, quota>>

\* The new player is inserted and its id returned.
UnclaimedInsert(t) ==
  /\ req[t].pc = "un_insert"
  /\ Cardinality({i \in 1..Len(players) :
                    StartsWith(players[i].name, Str_Unclaimed)}) < MaxUnclaimed
  /\ LET id == NewPlayerId(Len(players) + 1)
     IN /\ players' = Append(players, [id |-> id, name |-> req[t].newName])
        /\ req' = [req EXCEPT ![t].pc = "re_fetch", ![t].newPlayer = id,
                              ![t].newName = <<>>]
  /\ UNCHANGED <<aliases, overrides, playerCache, aliasCache, task>>
  /\ UNCHANGED <<pureVars, matches, history, perfs, stats, serial, quota>>

\* The insert fails: 'Failed to create Unclaimed player' is thrown and the
\* catch block answers 500.
UnclaimedInsertFail(t) ==
  /\ req[t].pc = "un_insert"
  /\ req' = [req EXCEPT ![t] = Respond(req[t], 500, FALSE)]
  /\ UNCHANGED <<dirVars, pureVars, matches, history, perfs, stats, serial, quota>>

\* The row to be moved is fetched (404 without it).
ReassignFetch(t) ==
  /\ req[t].pc = "re_fetch"
  /\ LET r == req[t]
     IN req' = [req EXCEPT ![t] =
                  IF ~PerfExists(r.kind, r.perfId) THEN Respond(r, 404, FALSE)
                  ELSE [r EXCEPT !.pc = "re_check",
                                 !.oldPlayer = PerfRow(r.kind, r.perfId).player_id]]
  /\ UNCHANGED <<dirVars, pureVars, matches, history, perfs, stats, serial, quota>>

\* One request at a time: reassignments to 'unclaimed' and to named players
\* over the rows of an imported match.
UnclaimedStep(t) ==
  \/ \E k \in Kinds, id \in 1..(serial.perf + 1), m \in MatchIds :
       ReassignUnclaimedStart(t, k, id, m)
  \/ UnclaimedUsed(t)
  \/ UnclaimedPick(t)
  \/ UnclaimedInsert(t)
  \/ UnclaimedInsertFail(t)
  \/ ReassignFetch(t)
  \/ \E k \in Kinds, id \in 1..(serial.perf + 1), p \in PlayerIds, m \in MatchIds :
       ReassignStart(t, k, id, p, m)
  \/ ReassignCheck(t)
  \/ ReassignUpdate(t)
  \/ MatchLookup(t)
  \/ RecomputeRead(t)
  \/ RecomputeWrite(t)

NextUnclaimed == UnclaimedStep("t1")

UnclaimedInit == PerfLoaded /\ quota = -1 /\ PureIdle

SpecUnclaimed == UnclaimedInit /\ [][NextUnclaimed]_vars

\* The request in slot t asks for 'unclaimed' and names the match of the
\* row it moves.
NamesRowMatch(t) ==
  /\ PerfExists(req[t].kind, req[t].perfId)
  /\ PerfRow(req[t].kind, req[t].perfId).match_id = req[t].matchId

\* C26: a reassignment to 'unclaimed', running alone, is never answered
\* with 'already has a performance in this match', and the player it
\* selected or created never makes its update break the uniqueness of
\* (match, player).
C26_UnclaimedAlwaysFree ==
  \A t \in Tasks :
    req[t].op = "unclaimed" =>
      /\ (req[t].pc = "done" => req[t].status # 400)
      /\ (req[t].pc = "re_update" =>
            ~ReassignViolatesUnique(perfs, req[t].kind, req[t].perfId,
                                    req[t].newPlayer))

\* ---------------------------------------------------------------------
\* The stat edit, column by column.
\* ---------------------------------------------------------------------

\* The `updates` objects of stat-edit requests.
EditBodies ==
  { [runs |-> 7],
    [runs |-> 7, player_id |-> NewPlayerId(3)],
    [player_id |-> NewPlayerId(3), match_id |-> MatchIdPool[4]],
    [bowled_lbw |-> TRUE, batting_position |-> 9],
    [not_out |-> TRUE, bowled_lbw |-> TRUE],
    [balls |-> 7, wickets |-> 7],
    [catches |-> 7, match_id |-> MatchIdPool[4]] }

\* POST update-performance on the i-th row of the table of kind k: the keys
\* of safeUpdates, the rows after the request, the status answered and
\* whether the recompute block was reached.
updatePerformance(k, rows, i, updates) ==
  LET safe == DOMAIN updates \cap AllowedFields(k)
  IN IF safe = {}
     THEN [rows |-> rows, status |-> 400, recompute |-> FALSE]
     ELSE IF i \notin 1..Len(rows)
     THEN [rows |-> rows, status |-> 404, recompute |-> FALSE]
     ELSE [rows |-> [rows EXCEPT ![i] =
                       [f \in DOMAIN rows[i] |->
                          IF f \in safe THEN updates[f] ELSE rows[i][f]]],
           status |-> 200, recompute |-> TRUE]

\* A stat-edit request is served.
EditCall(i, b) ==
  LET out == updatePerformance(arg.kind, arg.rows, i, b)
  IN /\ arg' = [arg EXCEPT !.rows = out.rows]
     /\ ret' = <<[row |-> i, updates |-> b, status |-> out.status,
                  recompute |-> out.recompute]>>
     /\ UNCHANGED <<dirVars, perfVars>>

NextEdit ==
  \/ \E e \in BattingEntries \cup BowlingEntries \cup FieldingEntries : RowInsert(e)
  \/ \E i \in 1..MaxRows, b \in EditBodies : EditCall(i, b)

SpecEdit == ReducerInit /\ [][NextEdit]_vars

\* The columns a stat edit must never write.
ProtectedColumns == {"player_id", "match_id", "bowled_lbw", "batting_position"}

\* C27: a stat edit leaves every row but the addressed one as it was, changes
\* in that row only columns its body names and never player_id, match_id,
\* bowled_lbw or batting_position; a body without a whitelisted key is
\* answered 400, writes nothing and does not reach the recompute.
C27_EditFrame ==
  [][ret' # <<>> =>
        /\ arg'.kind = arg.kind
        /\ Len(arg'.rows) = Len(arg.rows)
        /\ \A j \in 1..Len(arg.rows) :
             /\ j # ret'[1].row => arg'.rows[j] = arg.rows[j]
             /\ DOMAIN arg'.rows[j] = DOMAIN arg.rows[j]
             /\ \A f \in DOMAIN arg.rows[j] :
                  arg'.rows[j][f] # arg.rows[j][f]
                    => f \in DOMAIN ret'[1].updates /\ f \notin ProtectedColumns
        /\ (DOMAIN ret'[1].updates \cap AllowedFields(arg.kind) = {}
              => /\ ret'[1].status = 400
                 /\ ~ret'[1].recompute
                 /\ arg' = arg)]_vars

\* An edit whose body named a whitelisted and a protected column was
\* served: the first was written, the second was not.
C27_Witness ==
  /\ ret # <<>>
  /\ ret[1].status = 200
  /\ ret[1].updates = [runs |-> 7, player_id |-> NewPlayerId(3)]
  /\ arg.rows[ret[1].row].runs = 7
  /\ arg.rows[ret[1].row].player_id = NewPlayerId(1)

\* ---------------------------------------------------------------------
\* Delete, then import again.
\* ---------------------------------------------------------------------

\* The delete in slot t removes its match row in this step.
DeletesMatch(t) ==
  /\ req[t].op = "delete"
  /\ req[t].pc = "de_match"
  /\ MatchExists(req[t].matchId)
  /\ ~\E m \in matches' : m.id = req[t].matchId

\* C28: once a delete has removed a match, no import_history row carries the
\* fingerprint of that match any more, so the duplicate check of an import
\* of the same HTML finds nothing and the import is accepted.
C28_DeletedCanBeImportedAgain ==
  [][\A t \in Tasks :
       DeletesMatch(t) =>
         ~\E h \in history' :
            h.content_hash = MatchRow(req[t].matchId).raw_html_hash]_vars

\* ---------------------------------------------------------------------
\* The result of an imported match.
\* ---------------------------------------------------------------------

\* How many words a result text has at most.
MaxWords == 2

\* String.prototype.includes.
Includes(s, sub) ==
  \E i \in 0..(Len(s) - Len(sub)) : SubSeq(s, i + 1, i + Len(sub)) = sub

\* inferResult of the parser: the first team of the title is the opponent.
inferResult(text, teams) ==
  LET lower == ToLowerCase(text)
  IN IF Includes(lower, <<"w", "o", "n">>)
     THEN IF Includes(lower, ToLowerCase(teams[1])) THEN "loss" ELSE "win"
     ELSE IF Includes(lower, <<"t", "i", "e">>)
             \/ Includes(lower, <<"t", "i", "e", "d">>)
     THEN "tie"
     ELSE "no_result"

\* A condition that no string passes.
AlwaysFalsy(s) == FALSE

\* if (parsedData.result): the empty string is the one falsy string.
Truthy(s) == s # ""

\* An innings the route did not find.
NoInnings == -1

\* The result the import route stores: the parser's, or the comparison of
\* the totals of our innings and the opponent's.
StoredResult(parsedResult, ourTotal, opponentTotal) ==
  IF Truthy(parsedResult) THEN parsedResult
  ELSE IF ourTotal # NoInnings /\ opponentTotal # NoInnings
  THEN IF ourTotal > opponentTotal THEN "win"
       ELSE IF ourTotal < opponentTotal THEN "loss"
       ELSE "tie"
  ELSE "no_result"

\* The words of the result line of a scorecard.
ResultWords ==
  {Str_Al, Str_Bo, <<"w", "o", "n">>, <<"T", "i", "e", "d">>, <<"t", "i", "e">>,
   <<"d", "r", "a", "w", "n">>}

\* The result line gets one more word.
ResultTextAdd(w) ==
  /\ Len(SplitSpace(arg.text)) < MaxWords
  /\ arg' = [arg EXCEPT !.text = IF @ = <<>> THEN w ELSE @ \o <<" ">> \o w]
  /\ ret' = <<>>
  /\ UNCHANGED <<dirVars, perfVars>>

\* The import parses the scorecard and determines the result of the match
\* row.
ResultStore ==
  /\ ret = <<>>
  /\ ret' = <<StoredResult(inferResult(arg.text, arg.teams), arg.our, arg.opponent)>>
  /\ arg' = arg
  /\ UNCHANGED <<dirVars, perfVars>>

ResultInit ==
  /\ DirInit
  /\ PerfIdle
  /\ quota = -1
  /\ arg \in {[text |-> <<>>, teams |-> tm, our |-> a, opponent |-> b] :
                tm \in {<<Str_Al, Str_Bo>>, <<Str_Bo, Str_Al>>},
                a \in {NoInnings, 0, 1}, b \in {NoInnings, 0, 1}}
  /\ ret = <<>>

NextResult ==
  \/ \E w \in ResultWords : ResultTextAdd(w)
  \/ ResultStore

SpecResult == ResultInit /\ [][NextResult]_vars

\* C29: the result an import stores is the result the parser inferred from
\* the result line, one of win, loss, tie and no_result, whatever the
\* totals of the two innings are.
C29_StoredResultIsParsed ==
  ret # <<>> =>
    /\ ret[1] = inferResult(arg.text, arg.teams)
    /\ ret[1] \in {"win", "loss", "tie", "no_result"}

\* A win was stored although our total is below the opponent's.
C29_Witness ==
  /\ ret # <<>>
  /\ arg.our # NoInnings /\ arg.opponent # NoInnings
  /\ arg.our < arg.opponent
  /\ ret[1] = "win"

\* ---------------------------------------------------------------------
\* Names that are empty once normalized.
\* ---------------------------------------------------------------------

\* C30: a name whose normalized form is empty, looked up with no override
\* and no alias, is not found when the directory is empty and resolves to
\* the first player of the directory otherwise.
C30_EmptyNameFirstPlayer ==
  (ret # <<>> /\ LookedUp = <<>>) =>
    IF arg.players = <<>> THEN ret[1].kind = "notfound"
    ELSE /\ ret[1].kind = "found"
         /\ ret[1].playerId = arg.players[1].id
         /\ ret[1].playerName = arg.players[1].name

\* '*' was looked up in a directory of several players and the first one
\* came back.
C30_Witness ==
  /\ ret # <<>>
  /\ arg.rawName = Str_Star
  /\ Len(arg.players) >= 2
  /\ ret[1].kind = "found"
  /\ ret[1].playerId = arg.players[1].id

====
